---- MODULE Spec2Model ----
(***************************************************************************)
(* A model of the idea-to-graph pipeline of the mind-map server:           *)
(*   - the graph store (tables mind_maps, nodes, edges and their HTTP      *)
(*     handlers),                                                          *)
(*   - the api_keys table and the credential functions,                    *)
(*   - the idea generation handler (key resolution, outbound request,      *)
(*     normalisation of the reply),                                        *)
(*   - the layout engine and the handler that turns ideas into nodes and   *)
(*     edges.                                                              *)
(*                                                                         *)
(* Identifiers are integers: a row id is the value of the table's counter  *)
(* when the row was inserted (uuid.New() never repeats), NoID stands for   *)
(* the empty string / SQL NULL, GhostMap, GhostNode and GhostEdge are      *)
(* well-formed UUIDs that name no row, BadUUID is a string that is not a   *)
(* UUID (PostgreSQL rejects the statement that carries it).                *)
(*                                                                         *)
(* A database round trip is a function of the store and the request: it    *)
(* yields the status the handler answers with and the store it leaves.  A  *)
(* handler takes one step per round trip (every SELECT of its checks,      *)
(* every statement of its write, the statements of a transaction, the      *)
(* outbound HTTP request), and the steps of other requests run between     *)
(* them; XxxR is the handler when none does.  PostgreSQL runs at READ      *)
(* COMMITTED: a statement that meets a row locked by an open transaction   *)
(* waits for it, and a cycle of waits ends with one statement refused.     *)
(* The statuses follow the error taxonomy: "OK" (2xx), "BadRequest" (400), *)
(* "Unauthorized" (401), "NotFound" (500 after a lookup or a write that    *)
(* found no row), "StoreError" (500 after a statement the database         *)
(* refused).                                                               *)
(***************************************************************************)
EXTENDS Integers, Sequences, FiniteSets, TLC

\* ------------------------------------------------------------- bounds
MaxMaps == 2
MaxNodes == 2
MaxEdges == 2
MaxBatch == 3
MaxKeys == 2
MaxCalls == 2
MaxServed == 2
MaxNonce == 1
MaxLen == 4
MaxProse == 1
MaxElems == 2
MaxIdeas == 2
MaxCount == 4

\* ------------------------------------------------------------- values
Users == {"u1", "u2"}

NoID == 0
MapIds == 1..MaxMaps
NodeIds == 1..MaxNodes
EdgeIds == 1..MaxEdges
GhostMap == MaxMaps + 1
\* The handler that turns ideas into nodes draws up to MaxIdeas ids more.
PoolNodes == MaxNodes + MaxIdeas
PoolEdges == MaxEdges + MaxIdeas
GhostNode == PoolNodes + 1
GhostEdge == MaxEdges + 1
BadUUID == PoolNodes + 2

KeyIds == 1..MaxKeys
GhostKey == MaxKeys + 1
Calls == 1..MaxCalls
Nonces == 1..MaxNonce
Services == {"openai", "other"}
\* The AES-256 key size in bytes, and the configured secrets as byte strings.
KeySize == 32
\* gcm.NonceSize() and the length of the tag Seal appends.
NonceSize == 12
TagSize == 16
\* The digit of '=' in a base64 text.
Pad == 64
Secrets == {<<1>>, <<2>>}
DefaultKeys == {"", "kd"}

\* Secrets of every length: shorter than KeySize bytes (the empty one
\* included), of KeySize bytes, and longer.  A byte of an environment
\* variable is never 0.  Plaintexts are the key texts that are encrypted.
Filled(n, byte) == [i \in 1..n |-> byte]
VaultSecrets ==
    {<<>>, <<1>>, <<2>>,
     Filled(KeySize, 1), Filled(KeySize - 1, 1) \o <<2>>,
     Filled(KeySize, 1) \o <<3>>, Filled(KeySize, 1) \o <<4>>}
Plaintexts == {"", "k1", "k2"}

VARIABLES
    mindMaps,   \* table mind_maps: id -> row
    nodes,      \* table nodes: id -> row
    edges,      \* table edges: id -> row
    nextNode,   \* number of node ids handed out so far
    nextEdge,   \* number of edge ids handed out so far
    apiKeys,    \* table api_keys: id -> row
    nextKey,    \* number of api key ids handed out so far
    calls,      \* the handler calls in flight: call -> its locals, then its answer
    secret,     \* environment: API_KEY_ENCRYPTION_KEY
    defaultKey, \* environment: OPENAI_API_KEY
    content,    \* the reply text handed to the normaliser
    ideas,      \* the ideas the normaliser returned for it
    normalized, \* whether the normaliser has run on content
    layoutArgs, \* the arguments handed to the layout engine
    placements, \* the positions it returned for them
    positioned, \* whether the layout engine has run on layoutArgs
    mat         \* the CreateNodesFromIdeas call in flight: its locals

storeVars == <<mindMaps, nodes, edges, nextNode, nextEdge>>
keyVars == <<apiKeys, nextKey, calls>>
envVars == <<secret, defaultKey>>
normVars == <<content, ideas, normalized>>
layoutVars == <<layoutArgs, placements, positioned>>
pipeVars == <<layoutVars, mat>>

\* ------------------------------------------------------------- helpers
Without(f, ks) == [k \in (DOMAIN f) \ ks |-> f[k]]
With(f, k, v) == [x \in (DOMAIN f) \cup {k} |-> IF x = k THEN v ELSE f[x]]

\* What a handler yields: the status and the tables it leaves.
Result(status, mm, ns, es, nn, ne) ==
    [status |-> status, mindMaps |-> mm, nodes |-> ns, edges |-> es,
     nextNode |-> nn, nextEdge |-> ne]

\* A handler that returns before it writes.
Rejected(status) == Result(status, mindMaps, nodes, edges, nextNode, nextEdge)

\* The store takes the tables a statement leaves.
Commit(r) ==
    /\ mindMaps' = r.mindMaps
    /\ nodes' = r.nodes
    /\ edges' = r.edges
    /\ nextNode' = r.nextNode
    /\ nextEdge' = r.nextEdge
    /\ UNCHANGED <<apiKeys, nextKey, envVars, normVars, pipeVars>>

\* A handler that makes one round trip to the database.
Serve(r) == Commit(r) /\ UNCHANGED calls

\* A handler that makes several round trips is a call in flight between
\* them: every round trip is a step of its own, and the steps of other
\* requests run in between.  The locals of a call that has read the row its
\* request names (a node or an edge, of mind map m) and has yet to read the
\* mind map; and of a call that passed its checks: the handler and the
\* request it goes on with.
Idle == [pc |-> "idle"]
Looked(op, u, arg, m) == [pc |-> "looked", op |-> op, user |-> u, arg |-> arg, map |-> m]
Checked(op, arg) == [pc |-> "checked", op |-> op, arg |-> arg]

\* The call has answered with status.
Done(status) == [pc |-> "done", status |-> status]

\* The call has answered 200 with a list of rows.
Listed(rows) == [pc |-> "done", status |-> "OK", rows |-> rows]

InFlight(c) == calls[c].pc \notin {"idle", "done"}

\* A request that arrives is call c: the first call not in flight.
FreeCall(c) == ~InFlight(c) /\ \A d \in 1..(c - 1) : InFlight(d)

\* The handler up to its database call: the lookups and the owner check
\* answered status; on "OK" the call goes on, else it has answered.
Begin(c, status, op, arg) ==
    /\ FreeCall(c)
    /\ calls' = [calls EXCEPT ![c] = IF status = "OK" THEN Checked(op, arg) ELSE Done(status)]
    /\ UNCHANGED <<storeVars, apiKeys, nextKey, envVars, normVars, pipeVars>>

\* The handler up to its first SELECT, of the row the request names: on
\* "OK" the call goes on to read mind map m, else it has answered.
Lookup(c, status, op, u, arg, m) ==
    /\ FreeCall(c)
    /\ calls' = [calls EXCEPT ![c] = IF status = "OK" THEN Looked(op, u, arg, m)
                                     ELSE Done(status)]
    /\ UNCHANGED <<storeVars, apiKeys, nextKey, envVars, normVars, pipeVars>>

\* Call c has read the row and is at the SELECT of the mind map.
AtMap(c, op) == calls[c].pc = "looked" /\ calls[c].op = op

\* The second SELECT and the check on its row: on "OK" a handler that writes
\* goes on to its database call, and a handler that reads has answered.
Owner(c, status) ==
    /\ calls' = [calls EXCEPT ![c] = IF status = "OK" THEN Checked(calls[c].op, calls[c].arg)
                                     ELSE Done(status)]
    /\ UNCHANGED <<storeVars, apiKeys, nextKey, envVars, normVars, pipeVars>>

Access(c, status) ==
    /\ calls' = [calls EXCEPT ![c] = Done(status)]
    /\ UNCHANGED <<storeVars, apiKeys, nextKey, envVars, normVars, pipeVars>>

\* Call c is at the database call of handler op.
At(c, op) == calls[c].pc = "checked" /\ calls[c].op = op

\* The database call of call c leaves r, and the handler answers r.status.
Answer(c, r) ==
    /\ Commit(r)
    /\ calls' = [calls EXCEPT ![c] = Done(r.status)]

SameStore(r) ==
    /\ r.mindMaps = mindMaps
    /\ r.nodes = nodes
    /\ r.edges = edges

\* ------------------------------------------------------------- mind_maps
GetMindMapByID_AnyStatus(m) == m \in DOMAIN mindMaps

\* SELECT ... FROM mind_maps WHERE id = $1 AND status != 'deleted'
GetMindMapByID(m) == m \in DOMAIN mindMaps /\ mindMaps[m].Status # "deleted"

\* mind_maps rows are never removed, so the next id is the row count + 1.
DBCreateMindMap(u, req) ==
    With(mindMaps, Cardinality(DOMAIN mindMaps) + 1,
         [UserID |-> u, Title |-> req.Title, Description |-> req.Description,
          IsPublic |-> req.IsPublic, Status |-> "active"])

\* COALESCE(NULLIF($n, ''), column): the empty string keeps the column
Coalesce(new, old) == IF new = "" THEN old ELSE new

\* UPDATE mind_maps SET title = COALESCE(NULLIF($2,''), title), description
\* likewise, is_public = $4, status likewise, WHERE id = $1 AND status !=
\* 'deleted'
DBUpdateMindMap(m, req) ==
    [mindMaps EXCEPT ![m] = [@ EXCEPT !.Title = Coalesce(req.Title, @),
                                      !.Description = Coalesce(req.Description, @),
                                      !.IsPublic = req.IsPublic,
                                      !.Status = Coalesce(req.Status, @)]]

\* UPDATE mind_maps SET status = 'deleted' WHERE id = $1 AND status != 'deleted'
DBDeleteMindMap(m) == [mindMaps EXCEPT ![m].Status = "deleted"]

\* Both statements match no row when the mind map is already deleted, and
\* the functions then return "mind map not found or already deleted".
RowsAffected(m) == m \in DOMAIN mindMaps /\ mindMaps[m].Status # "deleted"

\* uuid.Parse of the id in the path, before any lookup: an id that is no
\* UUID is answered 400; status is the answer of the lookups that follow.
ByPath(id, status) == IF id = BadUUID THEN "BadRequest" ELSE status

\* The check every update/delete handler makes on a mind map, and the one
\* every read handler makes (owner, or the map is public).
WriteAccess(u, m) ==
    IF ~GetMindMapByID(m) THEN "NotFound"
    ELSE IF mindMaps[m].UserID # u THEN "Unauthorized"
    ELSE "OK"

ReadAccess(u, m) ==
    IF ~GetMindMapByID(m) THEN "NotFound"
    ELSE IF mindMaps[m].UserID # u /\ ~mindMaps[m].IsPublic THEN "Unauthorized"
    ELSE "OK"

CreateMindMapR(u, req) ==
    IF req.Title = "" THEN Rejected("BadRequest")
    ELSE Result("OK", DBCreateMindMap(u, req), nodes, edges, nextNode, nextEdge)

GetMindMapR(u, m) == Rejected(ByPath(m, ReadAccess(u, m)))

\* h.DB.UpdateMindMap(mindMapID, req) and the handler's answer to it.
UpdateMindMapWriteR(m, req) ==
    IF ~RowsAffected(m) THEN Rejected("NotFound")
    ELSE Result("OK", DBUpdateMindMap(m, req), nodes, edges, nextNode, nextEdge)

\* The handler when no other request runs between its round trips.
UpdateMindMapR(u, m, req) ==
    IF ByPath(m, WriteAccess(u, m)) # "OK" THEN Rejected(ByPath(m, WriteAccess(u, m)))
    ELSE UpdateMindMapWriteR(m, req)

\* h.DB.DeleteMindMap(mindMapID) and the handler's answer to it.
DeleteMindMapWriteR(m) ==
    IF ~RowsAffected(m) THEN Rejected("NotFound")
    ELSE Result("OK", DBDeleteMindMap(m), nodes, edges, nextNode, nextEdge)

DeleteMindMapR(u, m) ==
    IF ByPath(m, WriteAccess(u, m)) # "OK" THEN Rejected(ByPath(m, WriteAccess(u, m)))
    ELSE DeleteMindMapWriteR(m)

\* ------------------------------------------------------------- nodes
\* SELECT ... FROM nodes WHERE id = $1
GetNodeByID(n) == n \in DOMAIN nodes

MapOfNode(n) == IF n \in DOMAIN nodes THEN nodes[n].MindMapID ELSE NoID

\* SELECT ... FROM nodes WHERE mind_map_id = $1
NodesOf(m) == {n \in DOMAIN nodes : nodes[n].MindMapID = m}

DBCreateNodeOK_NoParentKey(req) == req.MindMapID \in DOMAIN mindMaps

\* INSERT INTO nodes: fk_mind_map and fk_parent must name existing rows.
\* req.ParentID is NoID for a nil pointer (SQL NULL).
DBCreateNodeOK(req) ==
    /\ req.MindMapID \in DOMAIN mindMaps
    /\ req.ParentID = NoID \/ req.ParentID \in DOMAIN nodes

\* A nil json.RawMessage (the field is absent from the request body), and
\* the blob DB.CreateNode stores for it.
NilJSON == "nil"
EmptyJSON == "{}"
JSONOrEmpty(raw) == IF raw = NilJSON THEN EmptyJSON ELSE raw

NodeRow(req) ==
    [MindMapID |-> req.MindMapID, ParentID |-> req.ParentID,
     Content |-> req.Content,
     PositionX |-> req.PositionX, PositionY |-> req.PositionY,
     NodeType |-> req.NodeType,
     StyleData |-> JSONOrEmpty(req.StyleData), Metadata |-> JSONOrEmpty(req.Metadata)]

DBCreateNode(req) == With(nodes, nextNode + 1, NodeRow(req))

CoalescePos_Set(new, old) == new

\* position_x = COALESCE($3, position_x): $3 is NULL when the request's
\* value is 0.
CoalescePos(new, old) == IF new # 0 THEN new ELSE old

\* style_data = COALESCE($6, style_data): $6 is NULL for a nil RawMessage.
CoalesceJSON(new, old) == IF new # NilJSON THEN new ELSE old

\* UPDATE nodes SET content = COALESCE(NULLIF($2,''), content), ... WHERE id = $1
DBUpdateNode(n, req) ==
    [nodes EXCEPT ![n] = [@ EXCEPT !.Content = Coalesce(req.Content, @),
                                   !.PositionX = CoalescePos(req.PositionX, @),
                                   !.PositionY = CoalescePos(req.PositionY, @),
                                   !.NodeType = Coalesce(req.NodeType, @),
                                   !.StyleData = CoalesceJSON(req.StyleData, @),
                                   !.Metadata = CoalesceJSON(req.Metadata, @)]]

Descendants_Direct(ns, k) == ns \cup {c \in DOMAIN nodes : nodes[c].ParentID \in ns}

\* The rows removed by DELETE FROM nodes WHERE id = n: n and, through
\* fk_parent ON DELETE CASCADE, every node whose chain of parents reaches n.
RECURSIVE Descendants(_, _)
Descendants(ns, k) ==
    IF k = 0 THEN ns
    ELSE Descendants(ns \cup {c \in DOMAIN nodes : nodes[c].ParentID \in ns}, k - 1)

CascadeNodes(n) == Descendants({n}, Cardinality(DOMAIN nodes))

\* fk_source / fk_target ON DELETE CASCADE
CascadeEdges(gone) ==
    {e \in DOMAIN edges : edges[e].SourceID \in gone \/ edges[e].TargetID \in gone}

\* UPDATE nodes SET position_x = $2, position_y = $3 WHERE id = $1 on the row
\* it matches.
ExecPosition(row, entry) ==
    [row EXCEPT !.PositionX = entry.PositionX, !.PositionY = entry.PositionY]

\* The loop of BatchUpdateNodePositions inside the transaction: the UPDATE
\* above once per entry.  An entry whose id is not a UUID makes the statement
\* fail and ends the loop; an id that names no row updates zero rows and is
\* no error.  The result is the transaction's view of the table and whether
\* it failed.
RECURSIVE ExecPositions(_, _, _)
ExecPositions(ns, positions, i) ==
    IF i > Len(positions) THEN [err |-> FALSE, nodes |-> ns]
    ELSE IF positions[i].ID = BadUUID THEN [err |-> TRUE, nodes |-> ns]
    ELSE IF positions[i].ID \in DOMAIN ns
    THEN ExecPositions([ns EXCEPT ![positions[i].ID] = ExecPosition(@, positions[i])],
                       positions, i + 1)
    ELSE ExecPositions(ns, positions, i + 1)

\* The nodes table after a call that no other request runs into: the
\* deferred tx.Rollback() on an error, tx.Commit() otherwise.
DBBatchUpdateNodePositions(positions) ==
    LET tx == ExecPositions(nodes, positions, 1)
    IN [err |-> tx.err, nodes |-> IF tx.err THEN nodes ELSE tx.nodes]

\* The transaction of BatchUpdateNodePositions, round trip by round trip.
\* db.Begin() has returned.
TxBegun(positions) == [pc |-> "begun", op |-> "BatchUpdateNodePositions", arg |-> positions]

\* tx.Prepare has returned and the loop is at entry i; rows holds the row
\* versions the transaction has written: they are locked, and no other
\* request sees them before the commit.
TxExec(positions, i, rows) ==
    [pc |-> "exec", op |-> "BatchUpdateNodePositions", arg |-> positions, i |-> i,
     rows |-> rows]

\* A statement was refused: PostgreSQL has aborted the transaction, which
\* holds no row any more, and the deferred tx.Rollback() is to come.
TxFailed(positions) == [pc |-> "failed", op |-> "BatchUpdateNodePositions", arg |-> positions]

\* A DELETE of node arg.ID that waits for a locked row of its cascade: locks
\* are the rows it has removed so far, which stay in the table for every
\* other request until the statement ends.
Blocked(arg, locks) == [pc |-> "blocked", op |-> "DeleteNode", arg |-> arg, locks |-> locks]

\* The rows of nodes call c holds locked.
Locks(c) ==
    IF calls[c].pc = "exec" THEN DOMAIN calls[c].rows
    ELSE IF calls[c].pc = "blocked" THEN calls[c].locks
    ELSE {}

\* An UPDATE or DELETE of row n by call c waits while another call holds n.
RowLocked(c, n) == \E d \in Calls \ {c} : n \in Locks(d)

\* An INSERT that references row n (fk_parent, fk_source, fk_target) takes a
\* key-share lock on it: it waits for a DELETE that holds n, and not for an
\* UPDATE of n's position.
KeyLocked(n) == \E d \in Calls : calls[d].pc = "blocked" /\ n \in calls[d].locks

\* The rows the statement call c is at goes for next: the row of entry i of
\* a batch, the children of the rows a waiting DELETE has removed.
Wanted(c) ==
    IF calls[c].pc = "exec"
    THEN IF calls[c].i <= Len(calls[c].arg)
         THEN {calls[c].arg[calls[c].i].ID} \cap DOMAIN nodes ELSE {}
    ELSE IF calls[c].pc = "blocked"
    THEN {k \in DOMAIN nodes : k \notin calls[c].locks /\ nodes[k].ParentID \in calls[c].locks}
    ELSE {}

\* The statement of call c waits for a row that call d holds.
Waiting(c, d) == c # d /\ Wanted(c) \cap Locks(d) # {}

\* What a DELETE of n by call c holds when it comes to wait, having held
\* the rows of held before: n and rows of its cascade, each reached through
\* its parent and none of them locked, with a locked child of one of them.
HeldSets(c, n, held) ==
    {H \in SUBSET CascadeNodes(n) :
        /\ held \cup {n} \subseteq H
        /\ \A h \in H : ~RowLocked(c, h) /\ (h = n \/ nodes[h].ParentID \in H)
        /\ \E k \in CascadeNodes(n) \ H : RowLocked(c, k) /\ nodes[k].ParentID \in H}

\* The first SELECT of GetNode, UpdateNode, DeleteNode, DeleteEdgeByNodes and
\* the batch handler: h.DB.GetNodeByID.
NodeFound(n) ==
    IF n = BadUUID THEN "StoreError"
    ELSE IF ~GetNodeByID(n) THEN "NotFound"
    ELSE "OK"

\* The two SELECTs and the owner check when no request runs between them.
NodeWriteAccess(u, n) ==
    IF NodeFound(n) # "OK" THEN NodeFound(n)
    ELSE WriteAccess(u, nodes[n].MindMapID)

NodeReadAccess(u, n) ==
    IF NodeFound(n) # "OK" THEN NodeFound(n)
    ELSE ReadAccess(u, nodes[n].MindMapID)

\* The handler up to h.DB.CreateNode: validation, the lookup of the mind
\* map, the owner check.
CreateNodeCheck(u, req) ==
    IF req.MindMapID = NoID \/ req.Content = "" THEN "BadRequest"
    ELSE WriteAccess(u, req.MindMapID)

\* h.DB.CreateNode(req) and the handler's answer to it.
CreateNodeWriteR(req) ==
    IF ~DBCreateNodeOK(req) THEN Rejected("StoreError")
    ELSE Result("OK", mindMaps, DBCreateNode(req), edges, nextNode + 1, nextEdge)

CreateNodeR(u, req) ==
    IF CreateNodeCheck(u, req) # "OK" THEN Rejected(CreateNodeCheck(u, req))
    ELSE CreateNodeWriteR(req)

GetNodeR(u, n) == Rejected(ByPath(n, NodeReadAccess(u, n)))

GetNodesByMindMapR(u, m) == Rejected(ByPath(m, ReadAccess(u, m)))

\* h.DB.UpdateNode(nodeID, req) and the handler's answer to it: the UPDATE
\* that matches no row returns "node not found".
UpdateNodeWriteR(n, req) ==
    IF ~GetNodeByID(n) THEN Rejected("NotFound")
    ELSE Result("OK", mindMaps, DBUpdateNode(n, req), edges, nextNode, nextEdge)

UpdateNodeR(u, n, req) ==
    IF ByPath(n, NodeWriteAccess(u, n)) # "OK" THEN Rejected(ByPath(n, NodeWriteAccess(u, n)))
    ELSE UpdateNodeWriteR(n, req)

\* h.DB.DeleteNode(nodeID) and the handler's answer to it: the DELETE that
\* matches no row returns "node not found".
DeleteNodeWriteR(n) ==
    IF ~GetNodeByID(n) THEN Rejected("NotFound")
    ELSE Result("OK", mindMaps, Without(nodes, CascadeNodes(n)),
                Without(edges, CascadeEdges(CascadeNodes(n))), nextNode, nextEdge)

DeleteNodeR(u, n) ==
    IF ByPath(n, NodeWriteAccess(u, n)) # "OK" THEN Rejected(ByPath(n, NodeWriteAccess(u, n)))
    ELSE DeleteNodeWriteR(n)

\* The handler up to its first SELECT: it looks up the node of the FIRST
\* entry only, and answers for the mind map of that node.
BatchUpdateNodePositionsFound(positions) ==
    IF Len(positions) = 0 THEN "BadRequest"
    ELSE NodeFound(positions[1].ID)

\* The handler up to h.DB.BatchUpdateNodePositions when no request runs
\* between its SELECTs.
BatchUpdateNodePositionsCheck(u, positions) ==
    IF Len(positions) = 0 THEN "BadRequest"
    ELSE NodeWriteAccess(u, positions[1].ID)

\* h.DB.BatchUpdateNodePositions(req.Positions) and the handler's answer to
\* it, when no request runs between its statements.
BatchUpdateNodePositionsWriteR(positions) ==
    Result(IF DBBatchUpdateNodePositions(positions).err THEN "StoreError" ELSE "OK",
           mindMaps, DBBatchUpdateNodePositions(positions).nodes, edges,
           nextNode, nextEdge)

BatchUpdateNodePositionsR(u, positions) ==
    IF BatchUpdateNodePositionsCheck(u, positions) # "OK"
    THEN Rejected(BatchUpdateNodePositionsCheck(u, positions))
    ELSE BatchUpdateNodePositionsWriteR(positions)

\* ------------------------------------------------------------- edges
GetEdgeByID(e) == e \in DOMAIN edges

MapOfEdge(e) == IF e \in DOMAIN edges THEN edges[e].MindMapID ELSE NoID

\* SELECT ... FROM edges WHERE mind_map_id = $1
EdgesOf(m) == {e \in DOMAIN edges : edges[e].MindMapID = m}

\* INSERT INTO edges: fk_mind_map, fk_source, fk_target must name existing
\* rows and unique_connection UNIQUE(source_id, target_id) must hold.
DBCreateEdgeOK_NoUnique(req) ==
    /\ req.MindMapID \in DOMAIN mindMaps
    /\ req.SourceID \in DOMAIN nodes
    /\ req.TargetID \in DOMAIN nodes

DBCreateEdgeOK(req) ==
    /\ req.MindMapID \in DOMAIN mindMaps
    /\ req.SourceID \in DOMAIN nodes
    /\ req.TargetID \in DOMAIN nodes
    /\ ~\E e \in DOMAIN edges :
          edges[e].SourceID = req.SourceID /\ edges[e].TargetID = req.TargetID

DBCreateEdge(req) ==
    With(edges, nextEdge + 1,
         [MindMapID |-> req.MindMapID, SourceID |-> req.SourceID,
          TargetID |-> req.TargetID, EdgeType |-> req.EdgeType])

\* The rows of DELETE FROM edges WHERE source_id = $1 AND target_id = $2
EdgesByNodes(s, t) ==
    {e \in DOMAIN edges : edges[e].SourceID = s /\ edges[e].TargetID = t}

\* The first SELECT of GetEdge and DeleteEdge: h.DB.GetEdgeByID.
EdgeFound(e) == IF ~GetEdgeByID(e) THEN "NotFound" ELSE "OK"

\* The two SELECTs and the owner check when no request runs between them.
EdgeWriteAccess(u, e) ==
    IF EdgeFound(e) # "OK" THEN EdgeFound(e) ELSE WriteAccess(u, edges[e].MindMapID)

EdgeReadAccess(u, e) ==
    IF EdgeFound(e) # "OK" THEN EdgeFound(e) ELSE ReadAccess(u, edges[e].MindMapID)

\* The handler up to h.DB.CreateEdge: validation, the lookup of the mind
\* map, the owner check.
CreateEdgeCheck(u, req) ==
    IF req.MindMapID = NoID \/ req.SourceID = NoID \/ req.TargetID = NoID
    THEN "BadRequest"
    ELSE WriteAccess(u, req.MindMapID)

\* h.DB.CreateEdge(req) and the handler's answer to it.
CreateEdgeWriteR(req) ==
    IF ~DBCreateEdgeOK(req) THEN Rejected("StoreError")
    ELSE Result("OK", mindMaps, nodes, DBCreateEdge(req), nextNode, nextEdge + 1)

CreateEdgeR(u, req) ==
    IF CreateEdgeCheck(u, req) # "OK" THEN Rejected(CreateEdgeCheck(u, req))
    ELSE CreateEdgeWriteR(req)

GetEdgeR(u, e) == Rejected(ByPath(e, EdgeReadAccess(u, e)))

GetEdgesByMindMapR(u, m) == Rejected(ByPath(m, ReadAccess(u, m)))

\* h.DB.DeleteEdge(edgeID) and the handler's answer to it: the DELETE that
\* matches no row returns "edge not found".
DeleteEdgeWriteR(e) ==
    IF ~GetEdgeByID(e) THEN Rejected("NotFound")
    ELSE Result("OK", mindMaps, nodes, Without(edges, {e}), nextNode, nextEdge)

DeleteEdgeR(u, e) ==
    IF ByPath(e, EdgeWriteAccess(u, e)) # "OK" THEN Rejected(ByPath(e, EdgeWriteAccess(u, e)))
    ELSE DeleteEdgeWriteR(e)

\* The handler up to its first SELECT: it looks up the SOURCE NODE and
\* answers for the mind map of that node.
DeleteEdgeByNodesFound(s, t) ==
    IF s = NoID \/ t = NoID THEN "BadRequest"
    ELSE NodeFound(s)

\* The handler up to h.DB.DeleteEdgeByNodes when no request runs between its
\* SELECTs.
DeleteEdgeByNodesCheck(u, s, t) ==
    IF s = NoID \/ t = NoID THEN "BadRequest"
    ELSE NodeWriteAccess(u, s)

\* h.DB.DeleteEdgeByNodes(sourceID, targetID) and the handler's answer to it.
DeleteEdgeByNodesWriteR(s, t) ==
    IF EdgesByNodes(s, t) = {} THEN Rejected("NotFound")
    ELSE Result("OK", mindMaps, nodes, Without(edges, EdgesByNodes(s, t)),
                nextNode, nextEdge)

DeleteEdgeByNodesR(u, s, t) ==
    IF DeleteEdgeByNodesCheck(u, s, t) # "OK" THEN Rejected(DeleteEdgeByNodesCheck(u, s, t))
    ELSE DeleteEdgeByNodesWriteR(s, t)

\* ------------------------------------------------------------- api_keys
\* []byte(s) and string(b) for the key texts of the model; bytes that spell
\* none of them convert to a text that is no key text.
Bytes(s) ==
    CASE s = "" -> <<>>
      [] s = "k1" -> <<107, 49>>
      [] s = "k2" -> <<107, 50>>
      [] s = "kd" -> <<107, 100>>
      [] OTHER -> <<107, 120>>

String(b) ==
    CASE b = <<>> -> ""
      [] b = <<107, 49>> -> "k1"
      [] b = <<107, 50>> -> "k2"
      [] b = <<107, 100>> -> "kd"
      [] b = <<107, 120>> -> "kx"
      [] OTHER -> "?"

\* base64.StdEncoding: a text is the sequence of its digits, 0..63 for the
\* alphabet and Pad for '='.  Three bytes give four digits; a last group of
\* one or two bytes is padded.
EncodeToString(src) ==
    [j \in 1..(4 * ((Len(src) + 2) \div 3)) |->
        LET g == (j - 1) \div 4
            b0 == src[3 * g + 1]
            b1 == IF 3 * g + 2 <= Len(src) THEN src[3 * g + 2] ELSE 0
            b2 == IF 3 * g + 3 <= Len(src) THEN src[3 * g + 3] ELSE 0
        IN CASE (j - 1) % 4 = 0 -> b0 \div 4
             [] (j - 1) % 4 = 1 -> (b0 % 4) * 16 + b1 \div 16
             [] (j - 1) % 4 = 2 -> IF 3 * g + 2 > Len(src) THEN Pad
                                   ELSE (b1 % 16) * 4 + b2 \div 64
             [] OTHER -> IF 3 * g + 3 > Len(src) THEN Pad ELSE b2 % 64]

\* A text whose length is no multiple of four, or with a '=' before the one
\* or two that close it, is refused.
DecodeString(s) ==
    LET padding == IF Len(s) = 0 \/ s[Len(s)] # Pad THEN 0
                   ELSE IF s[Len(s) - 1] = Pad THEN 2
                   ELSE 1
    IN
    IF Len(s) % 4 # 0 THEN [err |-> TRUE, data |-> <<>>]
    ELSE IF \E j \in 1..(Len(s) - padding) : s[j] = Pad
    THEN [err |-> TRUE, data |-> <<>>]
    ELSE [err |-> FALSE,
          data |-> [i \in 1..(3 * (Len(s) \div 4) - padding) |->
                       LET g == (i - 1) \div 3
                           c0 == s[4 * g + 1]
                           c1 == s[4 * g + 2]
                           c2 == IF s[4 * g + 3] = Pad THEN 0 ELSE s[4 * g + 3]
                           c3 == IF s[4 * g + 4] = Pad THEN 0 ELSE s[4 * g + 4]
                       IN CASE (i - 1) % 3 = 0 -> c0 * 4 + c1 \div 16
                            [] (i - 1) % 3 = 1 -> (c1 % 16) * 16 + c2 \div 4
                            [] OTHER -> (c2 % 4) * 64 + c3]]

\* cipher.AEAD of crypto/cipher over a KeySize-byte key, by its contract:
\* Seal appends to dst the plaintext enciphered under the key and the nonce,
\* then a tag of TagSize bytes over key, nonce and ciphertext; Open refuses
\* data whose tag is not the one of its key and nonce, and deciphers the rest.
Keystream(key, nonce, i) ==
    (key[((i - 1) % KeySize) + 1] + nonce[((i - 1) % NonceSize) + 1] + i) % 256

Tag(key, nonce, ct) ==
    [j \in 1..TagSize |->
        (key[j] + 7 * key[j + TagSize] + nonce[((j - 1) % NonceSize) + 1]
         + (IF Len(ct) = 0 THEN 0 ELSE ct[((j - 1) % Len(ct)) + 1])) % 256]

Seal(dst, key, nonce, plaintext) ==
    LET ct == [i \in 1..Len(plaintext) |->
                  (plaintext[i] + Keystream(key, nonce, i)) % 256]
    IN dst \o ct \o Tag(key, nonce, ct)

Open_Unauthenticated(key, nonce, ciphertext) ==
    IF Len(ciphertext) < TagSize THEN [err |-> TRUE, plaintext |-> <<>>]
    ELSE [err |-> FALSE,
          plaintext |-> [i \in 1..(Len(ciphertext) - TagSize) |->
                            (ciphertext[i] + 256 - Keystream(key, nonce, i)) % 256]]

Open(key, nonce, ciphertext) ==
    IF Len(ciphertext) < TagSize THEN [err |-> TRUE, plaintext |-> <<>>]
    ELSE LET ct == SubSeq(ciphertext, 1, Len(ciphertext) - TagSize)
             tag == SubSeq(ciphertext, Len(ciphertext) - TagSize + 1, Len(ciphertext))
         IN IF tag # Tag(key, nonce, ct)
            THEN [err |-> TRUE, plaintext |-> <<>>]
            ELSE [err |-> FALSE,
                  plaintext |-> [i \in 1..Len(ct) |->
                                    (ct[i] + 256 - Keystream(key, nonce, i)) % 256]]

\* encryptAPIKeyUnder with a Seal that does not prepend the nonce.
encryptAPIKeyUnder_NoNonce(env, plaintext, draw) ==
    LET key == IF Len(env) < KeySize
               THEN [i \in 1..KeySize |-> IF i <= Len(env) THEN env[i] ELSE 0]
               ELSE IF Len(env) > KeySize THEN SubSeq(env, 1, KeySize)
               ELSE env
        nonce == [i \in 1..NonceSize |-> (draw + i) % 256]
    IN EncodeToString(Seal(<<>>, key, nonce, Bytes(plaintext)))

\* encryptAPIKey once os.Getenv("API_KEY_ENCRYPTION_KEY") gave env: the key
\* is env zero-padded below KeySize bytes and cut to KeySize above, so
\* aes.NewCipher and cipher.NewGCM never refuse it; io.ReadFull fills the
\* nonce with the bytes of the draw, Seal appends ciphertext and tag to the
\* nonce, and the whole is returned in base64.
encryptAPIKeyUnder(env, plaintext, draw) ==
    LET key == IF Len(env) < KeySize
               THEN [i \in 1..KeySize |-> IF i <= Len(env) THEN env[i] ELSE 0]
               ELSE IF Len(env) > KeySize THEN SubSeq(env, 1, KeySize)
               ELSE env
        nonce == [i \in 1..NonceSize |-> (draw + i) % 256]
        ciphertext == Seal(nonce, key, nonce, Bytes(plaintext))
    IN EncodeToString(ciphertext)

\* encryptAPIKey under the secret configured when it runs.
encryptAPIKey(plaintext, draw) == encryptAPIKeyUnder(secret, plaintext, draw)

\* decryptAPIKey once os.Getenv("API_KEY_ENCRYPTION_KEY") gave env: the key
\* is derived again, the text is decoded from base64, data shorter than a
\* nonce are refused, the first NonceSize bytes are the nonce and Open gets
\* the rest.
decryptAPIKeyUnder(env, ciphertext) ==
    LET key == IF Len(env) < KeySize
               THEN [i \in 1..KeySize |-> IF i <= Len(env) THEN env[i] ELSE 0]
               ELSE IF Len(env) > KeySize THEN SubSeq(env, 1, KeySize)
               ELSE env
        decoded == DecodeString(ciphertext)
    IN IF decoded.err THEN [err |-> TRUE, plaintext |-> ""]
       ELSE IF Len(decoded.data) < NonceSize THEN [err |-> TRUE, plaintext |-> ""]
       ELSE LET nonce == SubSeq(decoded.data, 1, NonceSize)
                ciphertextBytes == SubSeq(decoded.data, NonceSize + 1, Len(decoded.data))
                opened == Open(key, nonce, ciphertextBytes)
            IN IF opened.err THEN [err |-> TRUE, plaintext |-> ""]
               ELSE [err |-> FALSE, plaintext |-> String(opened.plaintext)]

\* decryptAPIKeyUnder on what encryptAPIKey returns for the secrets, key
\* texts and draws of the model, computed once: the triples of a secret, a
\* ciphertext and the result.
Decrypted ==
    LET ciphertexts == {encryptAPIKeyUnder(env, plaintext, draw) :
                           env \in VaultSecrets, plaintext \in Plaintexts, draw \in Nonces}
    IN {<<env, ciphertext, decryptAPIKeyUnder(env, ciphertext)>> :
           env \in VaultSecrets, ciphertext \in ciphertexts}

\* decryptAPIKey under the secret configured when it runs: the result of
\* decryptAPIKeyUnder, read from Decrypted when it is there.
decryptAPIKey(ciphertext) ==
    IF \E d \in Decrypted : d[1] = secret /\ d[2] = ciphertext
    THEN (CHOOSE d \in Decrypted : d[1] = secret /\ d[2] = ciphertext)[3]
    ELSE decryptAPIKeyUnder(secret, ciphertext)

\* SELECT ... FROM api_keys WHERE id = $1
GetAPIKeyByID(keys, k) == k \in DOMAIN keys

\* SELECT ... FROM api_keys WHERE user_id = $1 AND service = $2
KeysOf(keys, u, service) ==
    {k \in DOMAIN keys : keys[k].UserID = u /\ keys[k].Service = service}

GetAPIKeyByUserAndService(keys, u, service) ==
    IF KeysOf(keys, u, service) = {} THEN NoID
    ELSE CHOOSE k \in KeysOf(keys, u, service) : TRUE

GetDecryptedAPIKey_Inactive(u, service) ==
    LET k == GetAPIKeyByUserAndService(apiKeys, u, service)
    IN IF k = NoID THEN [err |-> TRUE, key |-> ""]
       ELSE LET d == decryptAPIKey(apiKeys[k].EncryptedKey)
            IN [err |-> d.err, key |-> d.plaintext]

GetDecryptedAPIKey(u, service) ==
    LET k == GetAPIKeyByUserAndService(apiKeys, u, service)
    IN IF k = NoID THEN [err |-> TRUE, key |-> ""]
       ELSE IF ~apiKeys[k].IsActive THEN [err |-> TRUE, key |-> ""]
       ELSE LET d == decryptAPIKey(apiKeys[k].EncryptedKey)
            IN [err |-> d.err, key |-> d.plaintext]

\* UPDATE api_keys SET encrypted_key = $1, is_active = true WHERE id = $2:
\* a statement that matches no row is not an error.
DBOverwriteKey(keys, k, enc) ==
    IF k \in DOMAIN keys
    THEN [keys EXCEPT ![k] = [@ EXCEPT !.EncryptedKey = enc, !.IsActive = TRUE]]
    ELSE keys

\* INSERT INTO api_keys ...: unique_user_service refuses a second row of the
\* pair.
DBInsertKeyOK(keys, u, service) == KeysOf(keys, u, service) = {}

DBInsertKey(keys, k, u, service, enc) ==
    With(keys, k, [UserID |-> u, Service |-> service, EncryptedKey |-> enc,
                   IsActive |-> TRUE])

KeyResult(status, keys, nk) == [status |-> status, apiKeys |-> keys, nextKey |-> nk]

\* DB.CreateAPIKey, statement by statement.  SELECT id: the call remembers
\* the id it found.
CallSelected(u, req, nonce) ==
    [pc |-> "selected", UserID |-> u, Service |-> req.Service,
     EncryptedKey |-> encryptAPIKey(req.Key, nonce),
     existing |-> GetAPIKeyByUserAndService(apiKeys, u, req.Service)]

\* UPDATE of the id found, or INSERT when none was found.
CreateAPIKeyWriteR(call) ==
    IF call.existing # NoID
    THEN [err |-> FALSE, id |-> call.existing, nextKey |-> nextKey,
          apiKeys |-> DBOverwriteKey(apiKeys, call.existing, call.EncryptedKey)]
    ELSE IF ~DBInsertKeyOK(apiKeys, call.UserID, call.Service)
    THEN [err |-> TRUE, id |-> NoID, nextKey |-> nextKey, apiKeys |-> apiKeys]
    ELSE [err |-> FALSE, id |-> nextKey + 1, nextKey |-> nextKey + 1,
          apiKeys |-> DBInsertKey(apiKeys, nextKey + 1, call.UserID,
                                  call.Service, call.EncryptedKey)]

\* The handler when no other request runs between its statements.
CreateAPIKeyR(u, req, nonce) ==
    IF req.Service = "" \/ req.Key = "" THEN KeyResult("BadRequest", apiKeys, nextKey)
    ELSE LET w == CreateAPIKeyWriteR(CallSelected(u, req, nonce))
         IN KeyResult(IF w.err THEN "StoreError"
                      ELSE IF ~GetAPIKeyByID(w.apiKeys, w.id) THEN "NotFound"
                      ELSE "OK",
                      w.apiKeys, w.nextKey)

KeyWriteAccess(u, k) ==
    IF ~GetAPIKeyByID(apiKeys, k) THEN "NotFound"
    ELSE IF apiKeys[k].UserID # u THEN "Unauthorized"
    ELSE "OK"

\* DB.UpdateAPIKey, statement by statement.
\* UPDATE api_keys SET encrypted_key = $1 WHERE id = $2: a statement that
\* matches no row is not an error.
DBSetEncryptedKey(keys, k, enc) ==
    IF k \in DOMAIN keys THEN [keys EXCEPT ![k].EncryptedKey = enc] ELSE keys

\* UPDATE api_keys SET is_active = $1 WHERE id = $2, likewise.
DBSetActive(keys, k, active) ==
    IF k \in DOMAIN keys THEN [keys EXCEPT ![k].IsActive = active] ELSE keys

\* Both statements of a call that no other request runs into.
DBUpdateAPIKey(k, req, nonce) ==
    DBSetActive(IF req.Key # "" THEN DBSetEncryptedKey(apiKeys, k, encryptAPIKey(req.Key, nonce))
                ELSE apiKeys,
                k, req.IsActive)

\* The handler when no other request runs between its statements.
UpdateAPIKeyR(u, k, req, nonce) ==
    IF KeyWriteAccess(u, k) # "OK" THEN KeyResult(KeyWriteAccess(u, k), apiKeys, nextKey)
    ELSE KeyResult("OK", DBUpdateAPIKey(k, req, nonce), nextKey)

\* DELETE FROM api_keys WHERE id = $1: DB.DeleteAPIKey does not look at the
\* number of rows, and the handler answers 200 also when there was none.
DBDeleteAPIKey(keys, k) == Without(keys, {k})

DeleteAPIKeyR(u, k) ==
    IF KeyWriteAccess(u, k) # "OK" THEN KeyResult(KeyWriteAccess(u, k), apiKeys, nextKey)
    ELSE KeyResult("OK", DBDeleteAPIKey(apiKeys, k), nextKey)

CommitKeys(r) ==
    /\ apiKeys' = r.apiKeys
    /\ nextKey' = r.nextKey

\* ------------------------------------------------------------- reply text
\* A text is a sequence of tokens: brackets, comma, newline, space, prose
\* words, and the JSON literals (null, strings, numbers, objects).  An object
\* is one token; Fields gives the value of its four fields, "-" when the
\* field is absent.
StringLits == {"\"a\"", "\"b\"", "\"Solar micro-grids\"", "\"Wind co-ops\"",
               "\"Battery recycling\""}
NumberLits == {"1"}
Objects == {"{idea:a}", "{idea:b}", "{content:b}", "{text:a}", "{description:b}",
            "{idea:null,content:a}", "{idea:1}", "{content:1,text:b}", "{}"}
Words == {"a", "b"}
Whitespace == {"NL", "SP"}

NoFields == [idea |-> "-", content |-> "-", text |-> "-", description |-> "-"]

Fields(o) ==
    CASE o = "{idea:a}" -> [NoFields EXCEPT !.idea = "\"a\""]
      [] o = "{idea:b}" -> [NoFields EXCEPT !.idea = "\"b\""]
      [] o = "{content:b}" -> [NoFields EXCEPT !.content = "\"b\""]
      [] o = "{text:a}" -> [NoFields EXCEPT !.text = "\"a\""]
      [] o = "{description:b}" -> [NoFields EXCEPT !.description = "\"b\""]
      [] o = "{idea:null,content:a}" -> [NoFields EXCEPT !.idea = "null", !.content = "\"a\""]
      [] o = "{idea:1}" -> [NoFields EXCEPT !.idea = "1"]
      [] o = "{content:1,text:b}" -> [NoFields EXCEPT !.content = "1", !.text = "\"b\""]
      [] OTHER -> NoFields

\* The characters of a string value, and of a number under %v.
TextOf(lit) ==
    CASE lit = "\"a\"" -> <<"a">>
      [] lit = "\"b\"" -> <<"b">>
      [] lit = "\"Solar micro-grids\"" -> <<"Solar micro-grids">>
      [] lit = "\"Wind co-ops\"" -> <<"Wind co-ops">>
      [] lit = "\"Battery recycling\"" -> <<"Battery recycling">>
      [] OTHER -> <<lit>>

\* Confidence 0.7, in tenths.
Confidence == 7
Idea(text) == [Content |-> text, Confidence |-> Confidence]

RECURSIVE StripSpace(_)
StripSpace(t) ==
    IF t = <<>> THEN <<>>
    ELSE IF Head(t) \in Whitespace THEN StripSpace(Tail(t))
    ELSE <<Head(t)>> \o StripSpace(Tail(t))

\* encoding/json's scanner on a text without whitespace: the index after
\* the value that starts at i, 0 when no value starts there.
RECURSIVE ParseValue(_, _)
RECURSIVE ParseElements(_, _)
ParseValue(t, i) ==
    IF i > Len(t) THEN 0
    ELSE IF t[i] \in {"null"} \cup StringLits \cup NumberLits \cup Objects THEN i + 1
    ELSE IF t[i] = "[" THEN
        IF i + 1 <= Len(t) /\ t[i + 1] = "]" THEN i + 2 ELSE ParseElements(t, i + 1)
    ELSE 0

ParseElements(t, i) ==
    LET j == ParseValue(t, i)
    IN IF j = 0 \/ j > Len(t) THEN 0
       ELSE IF t[j] = "]" THEN j + 1
       ELSE IF t[j] = "," THEN ParseElements(t, j + 1)
       ELSE 0

\* checkValid: the text is one JSON value and nothing else.
ValidJSON(t) == ParseValue(t, 1) = Len(t) + 1

\* The first token of each element of the array whose first element starts
\* at i.
RECURSIVE ArrayElements(_, _)
ArrayElements(t, i) ==
    IF t[i] = "]" THEN <<>>
    ELSE LET j == ParseValue(t, i)
         IN <<t[i]>> \o (IF t[j] = "," THEN ArrayElements(t, j + 1) ELSE <<>>)

\* json.Unmarshal(text, &rawIdeas) with rawIdeas a []map[string]interface{}:
\* a syntax error decodes nothing; null leaves the slice nil; an array
\* decodes object elements to maps and null elements to nil maps, any other
\* element is a type error; any other top-level value is a type error.
Unmarshal(text) ==
    LET t == StripSpace(text)
    IN IF ~ValidJSON(t) THEN [err |-> TRUE, rawIdeas |-> <<>>]
       ELSE IF t[1] = "null" THEN [err |-> FALSE, rawIdeas |-> <<>>]
       ELSE IF t[1] # "[" THEN [err |-> TRUE, rawIdeas |-> <<>>]
       ELSE LET es == ArrayElements(t, 2)
            IN [err |-> \E i \in 1..Len(es) : es[i] \notin Objects \cup {"null"},
                rawIdeas |-> es]

\* raw[field] of a decoded element: nil for a nil map and an absent field.
RawField(raw, field) == IF raw = "null" THEN "-" ELSE Fields(raw)[field]

\* fmt.Sprintf("%v", v)
FormatV(v) == IF v \in {"-", "null"} THEN <<"<nil>">> ELSE TextOf(v)

IdeaOfRaw(raw) ==
    IF FormatV(RawField(raw, "idea")) # <<"<nil>">>
        THEN Idea(FormatV(RawField(raw, "idea")))
    ELSE IF RawField(raw, "content") \in StringLits
        THEN Idea(TextOf(RawField(raw, "content")))
    ELSE IF RawField(raw, "text") \in StringLits
        THEN Idea(TextOf(RawField(raw, "text")))
    ELSE IF RawField(raw, "description") \in StringLits
        THEN Idea(TextOf(RawField(raw, "description")))
    ELSE Idea(<<"<nil>">>)

ConvertRawIdeas(rawIdeas) == [i \in 1..Len(rawIdeas) |-> IdeaOfRaw(rawIdeas[i])]

\* bytes.Index and bytes.LastIndex: 0-based, -1 when the token is absent.
Index(t, tok) ==
    IF \A i \in 1..Len(t) : t[i] # tok THEN -1
    ELSE (CHOOSE i \in 1..Len(t) : t[i] = tok /\ \A j \in 1..(i - 1) : t[j] # tok) - 1

LastIndex_First(t, tok) ==
    IF \A i \in 1..Len(t) : t[i] # tok THEN -1
    ELSE (CHOOSE i \in 1..Len(t) : t[i] = tok /\ \A j \in 1..(i - 1) : t[j] # tok) - 1

LastIndex(t, tok) ==
    IF \A i \in 1..Len(t) : t[i] # tok THEN -1
    ELSE (CHOOSE i \in 1..Len(t) : t[i] = tok /\ \A j \in (i + 1)..Len(t) : t[j] # tok) - 1

\* bytes.Split(content, "\n")
RECURSIVE SplitLines(_)
SplitLines(t) ==
    IF Index(t, "NL") = -1 THEN <<t>>
    ELSE <<SubSeq(t, 1, Index(t, "NL"))>> \o SplitLines(SubSeq(t, Index(t, "NL") + 2, Len(t)))

\* bytes.TrimSpace
RECURSIVE TrimLeft(_)
TrimLeft(t) == IF t # <<>> /\ Head(t) \in Whitespace THEN TrimLeft(Tail(t)) ELSE t
RECURSIVE TrimRight(_)
TrimRight(t) ==
    IF t # <<>> /\ t[Len(t)] \in Whitespace THEN TrimRight(SubSeq(t, 1, Len(t) - 1)) ELSE t
TrimSpace(t) == TrimRight(TrimLeft(t))

RECURSIVE IdeasOfLines(_)
IdeasOfLines(lines) ==
    IF lines = <<>> THEN <<>>
    ELSE (IF TrimSpace(Head(lines)) # <<>> THEN <<Idea(TrimSpace(Head(lines)))>> ELSE <<>>)
         \o IdeasOfLines(Tail(lines))

\* The tail of generateIdeasWithOpenAI: the reply text to ideas.  The second
\* Unmarshal runs only when a "[" is followed by a later "]"; otherwise err
\* keeps the first failure.
Normalize(text) ==
    LET first == Unmarshal(text)
        startIdx == Index(text, "[")
        endIdx == LastIndex(text, "]")
        second == IF startIdx >= 0 /\ endIdx > startIdx
                  THEN Unmarshal(SubSeq(text, startIdx + 1, endIdx + 1))
                  ELSE first
    IN IF ~first.err THEN ConvertRawIdeas(first.rawIdeas)
       ELSE IF second.err THEN IdeasOfLines(SplitLines(text))
       ELSE ConvertRawIdeas(second.rawIdeas)

\* ------------------------------------------------------------- generation
\* What the handler yields: the status, the number of requests sent to the
\* LLM, the key of the Authorization header, the prompt's kind and count,
\* and the ideas.
GenResult(status, requests, bearer, kind, count, is) ==
    [status |-> status, requests |-> requests, bearer |-> bearer,
     kind |-> kind, count |-> count, ideas |-> is]

GenStatuses == {"OK", "BadRequest", "NotFound", "Unauthorized", "NoCredential",
                "UpstreamError", "BadReply"}

GenRejected(status) == GenResult(status, 0, "", "", 0, <<>>)

ClampCount_NoCap(count) == IF count <= 0 THEN 5 ELSE count

\* req.Count after the two checks of the handler: 5 when not positive, 10
\* when above 10.
ClampCount(count) == IF count <= 0 THEN 5 ELSE IF count > 10 THEN 10 ELSE count

PromptKind(type) == IF type \in {"expand", "improve", "branch"} THEN type ELSE "new"

\* The handler up to generateIdeasWithOpenAI: validation, the lookup of the
\* mind map, the owner check.
GenerateIdeasCheck(u, req) ==
    IF req.MindMapID = NoID THEN "BadRequest"
    ELSE WriteAccess(u, req.MindMapID)

\* The key the request is sent with, "" when there is none: the explicit
\* key, else the stored key h.DB.GetDecryptedAPIKey yields, else envKey,
\* what os.Getenv("OPENAI_API_KEY") gave at the head of the function.
ResolveAPIKey(envKey, u, req) ==
    IF req.APIKey # "" THEN req.APIKey
    ELSE LET stored == GetDecryptedAPIKey(u, "openai")
         IN IF ~stored.err /\ stored.key # "" THEN stored.key ELSE envKey

\* The locals of a GenerateIdeas call of user u that passed the owner check
\* (req.Count is clamped) and read OPENAI_API_KEY into apiKey, and of one
\* that holds the key it sends.
GenAuthorized(u, req, apiKey) ==
    [pc |-> "authorized", op |-> "GenerateIdeas", user |-> u, req |-> req, apiKey |-> apiKey]
GenResolved(req, apiKey) ==
    [pc |-> "resolved", op |-> "GenerateIdeas", req |-> req, apiKey |-> apiKey]

\* The answer of a GenerateIdeas call.
GenDone(r) == [pc |-> "done", op |-> "GenerateIdeas"] @@ r

generateIdeasWithOpenAI_Retry(apiKey, req, llm) ==
    LET sent(status, n, is) == GenResult(status, n, apiKey, PromptKind(req.Type), req.Count, is)
    IN IF apiKey = "" THEN GenRejected("NoCredential")
       ELSE IF llm.Err THEN sent("UpstreamError", 2, <<>>)
       ELSE IF llm.StatusCode # 200 THEN sent("UpstreamError", 1, <<>>)
       ELSE IF llm.Body # "choices" THEN sent("BadReply", 1, <<>>)
       ELSE sent("OK", 1, Normalize(llm.Content))

\* generateIdeasWithOpenAI from the key it resolved on.  llm is what the one
\* client.Do yields: a transport error, or a status code and a body that
\* does not decode, has no choice, or has choices whose first content is
\* llm.Content.
generateIdeasWithOpenAI(apiKey, req, llm) ==
    LET sent(status, is) == GenResult(status, 1, apiKey, PromptKind(req.Type), req.Count, is)
    IN IF apiKey = "" THEN GenRejected("NoCredential")
       ELSE IF llm.Err THEN sent("UpstreamError", <<>>)
       ELSE IF llm.StatusCode # 200 THEN sent("UpstreamError", <<>>)
       ELSE IF llm.Body # "choices" THEN sent("BadReply", <<>>)
       ELSE sent("OK", Normalize(llm.Content))

\* The handler when no other request runs between its round trips.
GenerateIdeasR(u, req, llm) ==
    IF GenerateIdeasCheck(u, req) # "OK" THEN GenRejected(GenerateIdeasCheck(u, req))
    ELSE generateIdeasWithOpenAI(ResolveAPIKey(defaultKey, u, req),
                                 [req EXCEPT !.Count = ClampCount(@)], llm)

\* ------------------------------------------------------------- layout
\* Coordinates are whole units.  The three spacings of calculateNodePositions.
radialRadius == 200
horizontalSpacing == 250
verticalSpacing == 150

Position(x, y) == [X |-> x, Y |-> y]

\* radialRadius * (cos, sin) of the angle i * 2*Pi / count, rounded to the
\* unit, for the counts up to 6.
RadialOffsets(count) ==
    CASE count = 1 -> <<Position(200, 0)>>
      [] count = 2 -> <<Position(200, 0), Position(0 - 200, 0)>>
      [] count = 3 -> <<Position(200, 0), Position(0 - 100, 173), Position(0 - 100, 0 - 173)>>
      [] count = 4 -> <<Position(200, 0), Position(0, 200), Position(0 - 200, 0),
                        Position(0, 0 - 200)>>
      [] count = 5 -> <<Position(200, 0), Position(62, 190), Position(0 - 162, 118),
                        Position(0 - 162, 0 - 118), Position(62, 0 - 190)>>
      [] count = 6 -> <<Position(200, 0), Position(100, 173), Position(0 - 100, 173),
                        Position(0 - 200, 0), Position(0 - 100, 0 - 173),
                        Position(100, 0 - 173)>>
      [] OTHER -> <<>>

\* int(math.Ceil(math.Sqrt(float64(count))))
CeilSqrt(count) == CHOOSE c \in 0..count : c * c >= count /\ \A d \in 0..(c - 1) : d * d < count

calculateNodePositions_FromAnchor(startX, startY, count, layout) ==
    [k \in 1..count |->
        LET i == k - 1
            cols == CeilSqrt(count)
        IN CASE layout = "radial" ->
                  Position(startX + RadialOffsets(count)[k].X, startY + RadialOffsets(count)[k].Y)
             [] layout = "horizontal" ->
                  Position(startX + i * horizontalSpacing, startY)
             [] layout = "vertical" ->
                  Position(startX, startY + (i - (count \div 2)) * verticalSpacing)
             [] OTHER ->
                  Position(startX + ((i % cols) - (cols \div 2)) * horizontalSpacing,
                           startY + ((i \div cols) - (count \div (2 * cols))) * verticalSpacing)]

\* positions[i] for i = 0..count-1 is element i + 1 of the sequence; count/2
\* and i/cols are Go's integer divisions of non-negative operands.
calculateNodePositions(startX, startY, count, layout) ==
    [k \in 1..count |->
        LET i == k - 1
            cols == CeilSqrt(count)
        IN CASE layout = "radial" ->
                  Position(startX + RadialOffsets(count)[k].X, startY + RadialOffsets(count)[k].Y)
             [] layout = "horizontal" ->
                  Position(startX + (i - (count \div 2)) * horizontalSpacing, startY)
             [] layout = "vertical" ->
                  Position(startX, startY + (i - (count \div 2)) * verticalSpacing)
             [] OTHER ->
                  Position(startX + ((i % cols) - (cols \div 2)) * horizontalSpacing,
                           startY + ((i \div cols) - (count \div (2 * cols))) * verticalSpacing)]

\* ------------------------------------------------------------- materialize
\* CreateNodesFromIdeas, statement by statement.  The locals of a call: the
\* request, the positions, the index i of the idea the loop is at, and the
\* nodes and edges created so far (what the response lists).
CallStarted(u, req) ==
    IF req.MindMapID = NoID THEN Done("BadRequest")
    ELSE IF ~GetMindMapByID(req.MindMapID) THEN Done("NotFound")
    ELSE IF mindMaps[req.MindMapID].UserID # u THEN Done("Unauthorized")
    ELSE [pc |-> IF Len(req.Ideas) = 0 THEN "done" ELSE "node", status |-> "OK",
          req |-> req,
          positions |-> calculateNodePositions(req.StartX, req.StartY,
                                               Len(req.Ideas), req.Layout),
          i |-> 1, nodes |-> <<>>, edges |-> <<>>]

nodeReq_Default(call) ==
    [MindMapID |-> call.req.MindMapID, ParentID |-> call.req.ParentID,
     Content |-> call.req.Ideas[call.i].Content,
     PositionX |-> call.positions[call.i].X, PositionY |-> call.positions[call.i].Y,
     NodeType |-> "default", StyleData |-> NilJSON, Metadata |-> NilJSON]

\* The request of the i-th node; ParentID stays nil (NoID) when the request
\* names no parent.
nodeReq(call) ==
    [MindMapID |-> call.req.MindMapID, ParentID |-> call.req.ParentID,
     Content |-> call.req.Ideas[call.i].Content,
     PositionX |-> call.positions[call.i].X, PositionY |-> call.positions[call.i].Y,
     NodeType |-> "idea", StyleData |-> NilJSON, Metadata |-> NilJSON]

\* The request of the edge from the parent to the node just created.
edgeReq(call) ==
    [MindMapID |-> call.req.MindMapID, SourceID |-> call.req.ParentID,
     TargetID |-> call.nodes[call.i].ID, EdgeType |-> "idea"]

\* The end of one round of the loop: the next idea, or the response.
NextIdea(call) ==
    IF call.i = Len(call.req.Ideas) THEN [call EXCEPT !.pc = "done"]
    ELSE [call EXCEPT !.pc = "node", !.i = @ + 1]

\* http.Error and return: the loop is left where it stands.
Failed(call) == [call EXCEPT !.pc = "done", !.status = "StoreError"]

\* What the caller receives from a call that has returned: the 200 body lists
\* the nodes and edges created; the body of an error is the text handed to
\* http.Error (for a refused statement, the text followed by the database's
\* error).  The round stopped at its edge when its node is in the list.
Response(call) ==
    CASE call.status = "OK" -> [Code |-> 200, Nodes |-> call.nodes, Edges |-> call.edges]
      [] call.status = "StoreError" ->
            [Code |-> 500,
             Message |-> IF Len(call.nodes) = call.i THEN "Failed to create edge"
                         ELSE "Failed to create node"]
      [] call.status = "Unauthorized" -> [Code |-> 401, Message |-> "Unauthorized"]
      [] call.status = "NotFound" -> [Code |-> 500, Message |-> "Failed to get mind map"]
      [] call.status = "BadRequest" -> [Code |-> 400, Message |-> "Mind map ID is required"]

AfterFailure_RolledBack(call) ==
    LET made == {call.nodes[k].ID : k \in 1..Len(call.nodes)}
    IN [nodes |-> Without(nodes, made),
        edges |-> Without(edges, {e \in DOMAIN edges : edges[e].TargetID \in made})]

\* The tables the handler leaves when it returns on an error: no statement
\* follows the failed one.
AfterFailure(call) == [nodes |-> nodes, edges |-> edges]

\* ------------------------------------------------------------- requests
APIKeyCreateRequests == [Service : {"", "openai"}, Key : {"", "k1", "k2"}]
APIKeyUpdateRequests == [Key : {"", "k2"}, IsActive : BOOLEAN]
\* The request values the handlers are driven with.
MindMapCreateRequests == [Title : {"", "t1"}, Description : {""}, IsPublic : BOOLEAN]

MindMapUpdateRequests == [Title : {""}, Description : {""}, IsPublic : BOOLEAN, Status : {""}]

NodeCreateRequests ==
    [MindMapID : MapIds \cup {NoID, GhostMap}, ParentID : {NoID, GhostNode} \cup NodeIds,
     Content : {"c1"}, PositionX : {1}, PositionY : {1}, NodeType : {"default"},
     StyleData : {NilJSON}, Metadata : {NilJSON}]

NodeUpdateRequests ==
    [Content : {"", "c2"}, PositionX : {0}, PositionY : {0}, NodeType : {""},
     StyleData : {NilJSON}, Metadata : {NilJSON}]

EdgeCreateRequests ==
    [MindMapID : MapIds \cup {NoID, GhostMap}, SourceID : NodeIds \cup {GhostNode},
     TargetID : NodeIds, EdgeType : {"default"}]

BatchEntries == [ID : NodeIds \cup {GhostNode, BadUUID}, PositionX : {2}, PositionY : {3}]
Batches == UNION {[1..k -> BatchEntries] : k \in 0..MaxBatch}

StoredKeyRequests == [Service : {"openai"}, Key : {"k1"}]
ActivationRequests == [Key : {"", "k2"}, IsActive : BOOLEAN]
GenerationRequests ==
    [MindMapID : {NoID, GhostMap} \cup MapIds, Count : {0, 3, 11},
     Type : {"new"}, APIKey : {"", "kx"}]

\* Reply texts: an array of strings, an array of objects, prose lines, an
\* array inside prose, the empty text.
MakeArray(elements) ==
    <<"[">> \o [i \in 1..(2 * Len(elements) - 1) |->
                   IF i % 2 = 1 THEN elements[(i + 1) \div 2] ELSE ","] \o <<"]">>

SolarReply == MakeArray(<<"\"Solar micro-grids\"", "\"Wind co-ops\"", "\"Battery recycling\"">>)

Replies ==
    {SolarReply,
     MakeArray(<<"{idea:a}", "{content:b}">>),
     <<"a", "NL", "SP", "b">>,
     <<"a", "SP">> \o MakeArray(<<"{idea:a}">>) \o <<"SP", "b">>,
     <<>>}

NoReply(err, code, body) == [Err |-> err, StatusCode |-> code, Body |-> body, Content |-> <<>>]

LLMOutcomes ==
    {NoReply(TRUE, 0, ""), NoReply(FALSE, 500, ""), NoReply(FALSE, 201, "choices"),
     NoReply(FALSE, 200, "garbage"), NoReply(FALSE, 200, "nochoices")}
    \cup {[Err |-> FALSE, StatusCode |-> 200, Body |-> "choices", Content |-> c] : c \in Replies}

\* The texts the normaliser is run on: every text of up to MaxLen tokens of
\* Alphabet, every array of up to MaxElems elements between two proses of up
\* to MaxProse tokens, and the replies above.
Alphabet == {"[", "]", ",", "NL", "SP", "a", "null", "\"a\"", "{idea:a}", "{content:b}"}
Elements == {"{idea:a}", "{content:b}", "null", "\"a\""}
ProseAlphabet == {"[", "]", "NL", "SP", "a"}
Prose == UNION {[1..n -> ProseAlphabet] : n \in 0..MaxProse}
ElementSeqs == UNION {[1..n -> Elements] : n \in 0..MaxElems}
Embedded == {pre \o MakeArray(es) \o post : pre \in Prose, es \in ElementSeqs, post \in Prose}
\* The arrays of one object, for every object.
ObjectReplies == {MakeArray(<<o>>) : o \in Objects}
Texts ==
    UNION {[1..n -> Alphabet] : n \in 0..MaxLen} \cup Embedded \cup Replies \cup ObjectReplies

\* The arguments the layout engine is run on.
Anchors == {0 - 100, 0, 40}
Layouts == {"radial", "horizontal", "vertical", "grid"}
LayoutRequests == [StartX : Anchors, StartY : Anchors, Count : 0..MaxCount, Layout : Layouts]

\* The requests CreateNodesFromIdeas is driven with, and the edges another
\* request creates meanwhile.
IdeaLists == {SubSeq(<<Idea(<<"a">>), Idea(<<"b">>), Idea(<<"a">>)>>, 1, n) : n \in 0..MaxIdeas}
MaterializeRequests ==
    [MindMapID : {NoID, GhostMap} \cup MapIds, ParentID : {NoID, GhostNode} \cup NodeIds,
     Ideas : IdeaLists, StartX : {0}, StartY : {40}, Layout : {"horizontal"}]
RivalEdgeRequests ==
    [MindMapID : MapIds, SourceID : NodeIds, TargetID : 1..PoolNodes, EdgeType : {"default"}]

\* Update requests with every field empty or given, and the ones the node
\* handlers are driven with: a field group is given or left out as a whole.
NodeFieldUpdates ==
    [Content : {"", "c2"}, PositionX : {0, 2}, PositionY : {0, 3}, NodeType : {"", "idea"},
     StyleData : {NilJSON, "{s}"}, Metadata : {NilJSON, "{m}"}]
NodeEdits ==
    {req \in NodeFieldUpdates :
        /\ req.PositionX = 0 <=> req.PositionY = 0
        /\ req.NodeType = "" <=> req.StyleData = NilJSON
        /\ req.NodeType = "" <=> req.Metadata = NilJSON}
MindMapFieldUpdates ==
    [Title : {"", "t2"}, Description : {"", "d2"}, IsPublic : BOOLEAN,
     Status : {"", "active", "archived", "deleted"}]

\* ------------------------------------------------------------- actions
\* The handlers, for requests the auth middleware let through (it put a user
\* id in the request context).  A handler that makes one round trip is one
\* action.  Every other handler is a call: XBegin is the handler up to its
\* first SELECT, XOwner (XAccess in a handler that reads) the SELECT of the
\* mind map and the check on it, XWrite the database call and the answer.
\* The id pools are finite: a request that would insert a row is served only
\* while the pool has an id left.
CreateMindMap(u, req) ==
    /\ u \in Users
    /\ Cardinality(DOMAIN CreateMindMapR(u, req).mindMaps) <= MaxMaps
    /\ Serve(CreateMindMapR(u, req))

GetMindMap(u, m) ==
    /\ u \in Users
    /\ Serve(GetMindMapR(u, m))

UpdateMindMapBegin(c, u, m, req) ==
    /\ u \in Users
    /\ Begin(c, ByPath(m, WriteAccess(u, m)), "UpdateMindMap", [ID |-> m, req |-> req])

UpdateMindMapWrite(c) ==
    /\ At(c, "UpdateMindMap")
    /\ Answer(c, UpdateMindMapWriteR(calls[c].arg.ID, calls[c].arg.req))

DeleteMindMapBegin(c, u, m) ==
    /\ u \in Users
    /\ Begin(c, ByPath(m, WriteAccess(u, m)), "DeleteMindMap", [ID |-> m])

DeleteMindMapWrite(c) ==
    /\ At(c, "DeleteMindMap")
    /\ Answer(c, DeleteMindMapWriteR(calls[c].arg.ID))

CreateNodeBegin(c, u, req) ==
    /\ u \in Users
    /\ nextNode < MaxNodes
    /\ Begin(c, CreateNodeCheck(u, req), "CreateNode", req)

\* The INSERT waits while a DELETE holds the parent it references.
CreateNodeWrite(c) ==
    /\ At(c, "CreateNode")
    /\ ~KeyLocked(calls[c].arg.ParentID)
    /\ CreateNodeWriteR(calls[c].arg).nextNode <= MaxNodes
    /\ Answer(c, CreateNodeWriteR(calls[c].arg))

\* h.DB.GetNodeByID(nodeID)
GetNodeBegin(c, u, n) ==
    /\ u \in Users
    /\ Lookup(c, ByPath(n, NodeFound(n)), "GetNode", u, [ID |-> n], MapOfNode(n))

\* h.DB.GetMindMapByID(node.MindMapID), and the owner or the public flag.
GetNodeAccess(c) ==
    /\ AtMap(c, "GetNode")
    /\ Access(c, ReadAccess(calls[c].user, calls[c].map))

GetNodesByMindMapBegin(c, u, m) ==
    /\ u \in Users
    /\ Begin(c, ByPath(m, ReadAccess(u, m)), "GetNodesByMindMap", [ID |-> m])

\* h.DB.GetNodesByMindMapID(mindMapID): the answer lists the rows of the
\* mind map at this SELECT.
GetNodesByMindMapList(c) ==
    /\ At(c, "GetNodesByMindMap")
    /\ calls' = [calls EXCEPT ![c] = Listed(NodesOf(calls[c].arg.ID))]
    /\ UNCHANGED <<storeVars, apiKeys, nextKey, envVars, normVars, pipeVars>>

UpdateNodeBegin(c, u, n, req) ==
    /\ u \in Users
    /\ Lookup(c, ByPath(n, NodeFound(n)), "UpdateNode", u, [ID |-> n, req |-> req], MapOfNode(n))

UpdateNodeOwner(c) ==
    /\ AtMap(c, "UpdateNode")
    /\ Owner(c, WriteAccess(calls[c].user, calls[c].map))

\* The UPDATE waits while a transaction holds the row.
UpdateNodeWrite(c) ==
    /\ At(c, "UpdateNode")
    /\ ~RowLocked(c, calls[c].arg.ID)
    /\ Answer(c, UpdateNodeWriteR(calls[c].arg.ID, calls[c].arg.req))

DeleteNodeBegin(c, u, n) ==
    /\ u \in Users
    /\ Lookup(c, ByPath(n, NodeFound(n)), "DeleteNode", u, [ID |-> n], MapOfNode(n))

DeleteNodeOwner(c) ==
    /\ AtMap(c, "DeleteNode")
    /\ Owner(c, WriteAccess(calls[c].user, calls[c].map))

\* DELETE FROM nodes WHERE id = n by call c, which holds the rows of held:
\* it waits while another call holds n; it removes n and its cascade when no
\* row of the cascade is locked, and else comes to wait at a locked row,
\* holding what it has removed.
DeleteNodeExec(c, n, held) ==
    IF ~GetNodeByID(n) THEN Answer(c, Rejected("NotFound"))
    ELSE /\ ~RowLocked(c, n)
         /\ IF \A k \in CascadeNodes(n) : ~RowLocked(c, k)
            THEN Answer(c, DeleteNodeWriteR(n))
            ELSE /\ \E H \in HeldSets(c, n, held) :
                       calls' = [calls EXCEPT ![c] = Blocked(calls[c].arg, H)]
                 /\ UNCHANGED <<storeVars, apiKeys, nextKey, envVars, normVars, pipeVars>>

DeleteNodeWrite(c) ==
    /\ At(c, "DeleteNode")
    /\ DeleteNodeExec(c, calls[c].arg.ID, {})

\* The row the DELETE waited for is free: the statement goes on.
DeleteNodeResume(c) ==
    /\ calls[c].pc = "blocked"
    /\ \A d \in Calls : ~Waiting(c, d)
    /\ DeleteNodeExec(c, calls[c].arg.ID, calls[c].locks)

\* h.DB.GetNodeByID(req.Positions[0].ID)
BatchUpdateNodePositionsBegin(c, u, positions) ==
    /\ u \in Users
    /\ Lookup(c, BatchUpdateNodePositionsFound(positions), "BatchUpdateNodePositions",
              u, positions, IF Len(positions) = 0 THEN NoID ELSE MapOfNode(positions[1].ID))

BatchUpdateNodePositionsOwner(c) ==
    /\ AtMap(c, "BatchUpdateNodePositions")
    /\ Owner(c, WriteAccess(calls[c].user, calls[c].map))

\* db.Begin()
BatchUpdateNodePositionsBeginTx(c) ==
    /\ At(c, "BatchUpdateNodePositions")
    /\ calls' = [calls EXCEPT ![c] = TxBegun(calls[c].arg)]
    /\ UNCHANGED <<storeVars, apiKeys, nextKey, envVars, normVars, pipeVars>>

\* tx.Prepare(query)
BatchUpdateNodePositionsPrepare(c) ==
    /\ calls[c].pc = "begun"
    /\ calls' = [calls EXCEPT ![c] = TxExec(calls[c].arg, 1, <<>>)]
    /\ UNCHANGED <<storeVars, apiKeys, nextKey, envVars, normVars, pipeVars>>

\* stmt.Exec of entry i: an id that is not a UUID is refused; an id that
\* names no row updates none; the UPDATE of a row another call holds waits;
\* else the transaction writes the row and holds it.
BatchUpdateNodePositionsExec(c) ==
    /\ calls[c].pc = "exec"
    /\ calls[c].i <= Len(calls[c].arg)
    /\ LET tx == calls[c]
           entry == tx.arg[tx.i]
       IN IF entry.ID = BadUUID
          THEN calls' = [calls EXCEPT ![c] = TxFailed(tx.arg)]
          ELSE IF ~GetNodeByID(entry.ID)
          THEN calls' = [calls EXCEPT ![c] = TxExec(tx.arg, tx.i + 1, tx.rows)]
          ELSE /\ ~RowLocked(c, entry.ID)
               /\ calls' = [calls EXCEPT ![c] =
                               TxExec(tx.arg, tx.i + 1,
                                      With(tx.rows, entry.ID,
                                           ExecPosition(IF entry.ID \in DOMAIN tx.rows
                                                        THEN tx.rows[entry.ID]
                                                        ELSE nodes[entry.ID], entry)))]
    /\ UNCHANGED <<storeVars, apiKeys, nextKey, envVars, normVars, pipeVars>>

\* tx.Commit(): the rows the transaction wrote replace the rows of the table.
BatchUpdateNodePositionsCommit(c) ==
    /\ calls[c].pc = "exec"
    /\ calls[c].i > Len(calls[c].arg)
    /\ Answer(c, Result("OK", mindMaps,
                        [n \in DOMAIN nodes |-> IF n \in DOMAIN calls[c].rows
                                                THEN calls[c].rows[n] ELSE nodes[n]],
                        edges, nextNode, nextEdge))

\* The deferred tx.Rollback() and the handler's answer to the error.
BatchUpdateNodePositionsRollback(c) ==
    /\ calls[c].pc = "failed"
    /\ Answer(c, Rejected("StoreError"))

\* The statements of calls c and d wait for each other: PostgreSQL refuses
\* one of them ("deadlock detected"), here the one of call c.  A batch has
\* its transaction aborted; a DELETE returns the error to its handler.
Deadlock(c) ==
    /\ \E d \in Calls : Waiting(c, d) /\ Waiting(d, c)
    /\ calls' = [calls EXCEPT ![c] = IF calls[c].pc = "exec" THEN TxFailed(calls[c].arg)
                                     ELSE Done("StoreError")]
    /\ UNCHANGED <<storeVars, apiKeys, nextKey, envVars, normVars, pipeVars>>

CreateEdgeBegin(c, u, req) ==
    /\ u \in Users
    /\ nextEdge < MaxEdges
    /\ Begin(c, CreateEdgeCheck(u, req), "CreateEdge", req)

\* The INSERT that passes unique_connection waits while a DELETE holds a
\* node it references: fk_source is checked before fk_target.
EdgeInsertWaits(req) ==
    /\ EdgesByNodes(req.SourceID, req.TargetID) = {}
    /\ \/ KeyLocked(req.SourceID)
       \/ GetNodeByID(req.SourceID) /\ KeyLocked(req.TargetID)

CreateEdgeWrite(c) ==
    /\ At(c, "CreateEdge")
    /\ ~EdgeInsertWaits(calls[c].arg)
    /\ CreateEdgeWriteR(calls[c].arg).nextEdge <= MaxEdges
    /\ Answer(c, CreateEdgeWriteR(calls[c].arg))

\* h.DB.GetEdgeByID(edgeID)
GetEdgeBegin(c, u, e) ==
    /\ u \in Users
    /\ Lookup(c, ByPath(e, EdgeFound(e)), "GetEdge", u, [ID |-> e], MapOfEdge(e))

\* h.DB.GetMindMapByID(edge.MindMapID), and the owner or the public flag.
GetEdgeAccess(c) ==
    /\ AtMap(c, "GetEdge")
    /\ Access(c, ReadAccess(calls[c].user, calls[c].map))

GetEdgesByMindMapBegin(c, u, m) ==
    /\ u \in Users
    /\ Begin(c, ByPath(m, ReadAccess(u, m)), "GetEdgesByMindMap", [ID |-> m])

\* h.DB.GetEdgesByMindMapID(mindMapID)
GetEdgesByMindMapList(c) ==
    /\ At(c, "GetEdgesByMindMap")
    /\ calls' = [calls EXCEPT ![c] = Listed(EdgesOf(calls[c].arg.ID))]
    /\ UNCHANGED <<storeVars, apiKeys, nextKey, envVars, normVars, pipeVars>>

DeleteEdgeBegin(c, u, e) ==
    /\ u \in Users
    /\ Lookup(c, ByPath(e, EdgeFound(e)), "DeleteEdge", u, [ID |-> e], MapOfEdge(e))

DeleteEdgeOwner(c) ==
    /\ AtMap(c, "DeleteEdge")
    /\ Owner(c, WriteAccess(calls[c].user, calls[c].map))

DeleteEdgeWrite(c) ==
    /\ At(c, "DeleteEdge")
    /\ Answer(c, DeleteEdgeWriteR(calls[c].arg.ID))

\* h.DB.GetNodeByID(req.SourceID)
DeleteEdgeByNodesBegin(c, u, s, t) ==
    /\ u \in Users
    /\ Lookup(c, DeleteEdgeByNodesFound(s, t), "DeleteEdgeByNodes", u,
              [SourceID |-> s, TargetID |-> t], MapOfNode(s))

DeleteEdgeByNodesOwner(c) ==
    /\ AtMap(c, "DeleteEdgeByNodes")
    /\ Owner(c, WriteAccess(calls[c].user, calls[c].map))

DeleteEdgeByNodesWrite(c) ==
    /\ At(c, "DeleteEdgeByNodes")
    /\ Answer(c, DeleteEdgeByNodesWriteR(calls[c].arg.SourceID, calls[c].arg.TargetID))

\* ------------------------------------------------------------- api key actions
\* The handler up to and including the SELECT of DB.CreateAPIKey.
CreateAPIKeyBegin(c, u, req, nonce) ==
    /\ u \in Users
    /\ FreeCall(c)
    /\ calls' = [calls EXCEPT ![c] =
                    IF req.Service = "" \/ req.Key = "" THEN Done("BadRequest")
                    ELSE CallSelected(u, req, nonce)]
    /\ UNCHANGED <<storeVars, apiKeys, nextKey, envVars, normVars, pipeVars>>

\* The UPDATE or INSERT of DB.CreateAPIKey.
CreateAPIKeyWrite(c) ==
    /\ calls[c].pc = "selected"
    /\ LET w == CreateAPIKeyWriteR(calls[c])
       IN /\ w.nextKey <= MaxKeys
          /\ CommitKeys(w)
          /\ calls' = [calls EXCEPT ![c] =
                          IF w.err THEN Done("StoreError")
                          ELSE [pc |-> "written", id |-> w.id]]
    /\ UNCHANGED <<storeVars, envVars, normVars, pipeVars>>

\* The closing GetAPIKeyByID of DB.CreateAPIKey and the handler's answer.
CreateAPIKeyReturn(c) ==
    /\ calls[c].pc = "written"
    /\ calls' = [calls EXCEPT ![c] =
                    IF GetAPIKeyByID(apiKeys, calls[c].id) THEN Done("OK")
                    ELSE Done("NotFound")]
    /\ UNCHANGED <<storeVars, apiKeys, nextKey, envVars, normVars, pipeVars>>

\* The handler of UpdateAPIKey up to DB.UpdateAPIKey: the lookup of the key
\* and the owner check.
UpdateAPIKeyBegin(c, u, k, req, nonce) ==
    /\ u \in Users
    /\ Begin(c, KeyWriteAccess(u, k), "UpdateAPIKey",
             [ID |-> k, req |-> req, nonce |-> nonce])

\* The GetAPIKeyByID that opens DB.UpdateAPIKey, and encryptAPIKey(req.Key)
\* on its return; the UPDATE of encrypted_key is skipped when the request
\* gives no key.
UpdateAPIKeyFind(c) ==
    /\ At(c, "UpdateAPIKey")
    /\ calls' = [calls EXCEPT ![c] =
                    IF ~GetAPIKeyByID(apiKeys, calls[c].arg.ID) THEN Done("NotFound")
                    ELSE IF calls[c].arg.req.Key # ""
                    THEN [pc |-> "found", arg |-> calls[c].arg,
                          EncryptedKey |-> encryptAPIKey(calls[c].arg.req.Key,
                                                         calls[c].arg.nonce)]
                    ELSE [pc |-> "keyed", arg |-> calls[c].arg]]
    /\ UNCHANGED <<storeVars, apiKeys, nextKey, envVars, normVars, pipeVars>>

\* UPDATE api_keys SET encrypted_key.
UpdateAPIKeySetKey(c) ==
    /\ calls[c].pc = "found"
    /\ apiKeys' = DBSetEncryptedKey(apiKeys, calls[c].arg.ID, calls[c].EncryptedKey)
    /\ calls' = [calls EXCEPT ![c] = [pc |-> "keyed", arg |-> calls[c].arg]]
    /\ UNCHANGED <<storeVars, nextKey, envVars, normVars, pipeVars>>

\* UPDATE api_keys SET is_active.
UpdateAPIKeySetActive(c) ==
    /\ calls[c].pc = "keyed"
    /\ apiKeys' = DBSetActive(apiKeys, calls[c].arg.ID, calls[c].arg.req.IsActive)
    /\ calls' = [calls EXCEPT ![c] = [pc |-> "updated", id |-> calls[c].arg.ID]]
    /\ UNCHANGED <<storeVars, nextKey, envVars, normVars, pipeVars>>

\* The closing GetAPIKeyByID of DB.UpdateAPIKey and the handler's answer.
UpdateAPIKeyReturn(c) ==
    /\ calls[c].pc = "updated"
    /\ calls' = [calls EXCEPT ![c] =
                    IF GetAPIKeyByID(apiKeys, calls[c].id) THEN Done("OK")
                    ELSE Done("NotFound")]
    /\ UNCHANGED <<storeVars, apiKeys, nextKey, envVars, normVars, pipeVars>>

\* The handler of DeleteAPIKey up to DB.DeleteAPIKey.
DeleteAPIKeyBegin(c, u, k) ==
    /\ u \in Users
    /\ Begin(c, KeyWriteAccess(u, k), "DeleteAPIKey", [ID |-> k])

\* DB.DeleteAPIKey and the handler's answer: 200 whatever the DELETE matched.
DeleteAPIKeyWrite(c) ==
    /\ At(c, "DeleteAPIKey")
    /\ apiKeys' = DBDeleteAPIKey(apiKeys, calls[c].arg.ID)
    /\ calls' = [calls EXCEPT ![c] = Done("OK")]
    /\ UNCHANGED <<storeVars, nextKey, envVars, normVars, pipeVars>>

\* A redeployment: the environment is read again at every call.
Configure(s, d) ==
    /\ secret' = s
    /\ defaultKey' = d
    /\ UNCHANGED <<storeVars, keyVars, normVars, pipeVars>>

\* ------------------------------------------------------------- generation actions
\* The handler up to the round trip of generateIdeasWithOpenAI:
\* h.DB.GetMindMapByID, the owner check, the clamp of req.Count and the
\* os.Getenv("OPENAI_API_KEY") that opens generateIdeasWithOpenAI.  A request
\* that gives a key goes on with it, and makes no round trip for a stored
\* one.
GenerateIdeasBegin(c, u, req) ==
    /\ u \in Users
    /\ FreeCall(c)
    /\ LET counted == [req EXCEPT !.Count = ClampCount(@)]
       IN calls' = [calls EXCEPT ![c] =
                       IF GenerateIdeasCheck(u, req) # "OK"
                       THEN GenDone(GenRejected(GenerateIdeasCheck(u, req)))
                       ELSE IF req.APIKey # "" THEN GenResolved(counted, req.APIKey)
                       ELSE GenAuthorized(u, counted, defaultKey)]
    /\ UNCHANGED <<storeVars, apiKeys, nextKey, envVars, normVars, pipeVars>>

\* h.DB.GetDecryptedAPIKey(userID, "openai"): the stored key replaces the
\* value of OPENAI_API_KEY the call read before this round trip, and the call
\* answers when neither is a key.
GenerateIdeasKey(c) ==
    /\ calls[c].pc = "authorized"
    /\ LET apiKey == ResolveAPIKey(calls[c].apiKey, calls[c].user, calls[c].req)
       IN calls' = [calls EXCEPT ![c] =
                       IF apiKey = "" THEN GenDone(GenRejected("NoCredential"))
                       ELSE GenResolved(calls[c].req, apiKey)]
    /\ UNCHANGED <<storeVars, apiKeys, nextKey, envVars, normVars, pipeVars>>

\* client.Do(apiReq) with the key resolved, and the handler's answer to what
\* it yields.
GenerateIdeasSend(c, llm) ==
    /\ calls[c].pc = "resolved"
    /\ calls' = [calls EXCEPT ![c] =
                    GenDone(generateIdeasWithOpenAI(calls[c].apiKey, calls[c].req, llm))]
    /\ UNCHANGED <<storeVars, apiKeys, nextKey, envVars, normVars, pipeVars>>

\* The normaliser on the reply text held in content.
NormalizeReply ==
    /\ ~normalized
    /\ ideas' = Normalize(content)
    /\ normalized' = TRUE
    /\ UNCHANGED <<content, storeVars, keyVars, envVars, pipeVars>>

\* The layout engine on the arguments held in layoutArgs.
ComputePositions ==
    /\ ~positioned
    /\ placements' = calculateNodePositions(layoutArgs.StartX, layoutArgs.StartY,
                                            layoutArgs.Count, layoutArgs.Layout)
    /\ positioned' = TRUE
    /\ UNCHANGED <<layoutArgs, mat, storeVars, keyVars, envVars, normVars>>

\* ------------------------------------------------------------- materialize actions
\* The handler up to the loop: validation, the owner check, the positions.
\* One call is followed from its first statement to its response.
CreateNodesFromIdeasBegin(u, req) ==
    /\ u \in Users
    /\ mat.pc = "idle"
    /\ mat' = CallStarted(u, req)
    /\ UNCHANGED <<storeVars, keyVars, envVars, normVars, layoutVars>>

\* h.DB.CreateNode(nodeReq) of the round.
CreateNodesFromIdeasNode ==
    /\ mat.pc = "node"
    /\ ~KeyLocked(nodeReq(mat).ParentID)
    /\ IF DBCreateNodeOK(nodeReq(mat))
       THEN /\ nextNode < PoolNodes
            /\ nodes' = DBCreateNode(nodeReq(mat))
            /\ nextNode' = nextNode + 1
            /\ edges' = edges
            /\ LET made == [mat EXCEPT !.nodes = Append(@, [ID |-> nextNode + 1,
                                                           Node |-> NodeRow(nodeReq(mat))])]
               IN mat' = IF mat.req.ParentID # NoID THEN [made EXCEPT !.pc = "edge"]
                         ELSE NextIdea(made)
       ELSE /\ nodes' = AfterFailure(mat).nodes
            /\ edges' = AfterFailure(mat).edges
            /\ nextNode' = nextNode
            /\ mat' = Failed(mat)
    /\ UNCHANGED <<mindMaps, nextEdge, keyVars, envVars, normVars, layoutVars>>

\* h.DB.CreateEdge(edgeReq) of the round.
CreateNodesFromIdeasEdge ==
    /\ mat.pc = "edge"
    /\ ~EdgeInsertWaits(edgeReq(mat))
    /\ IF DBCreateEdgeOK(edgeReq(mat))
       THEN /\ nextEdge < PoolEdges
            /\ edges' = DBCreateEdge(edgeReq(mat))
            /\ nextEdge' = nextEdge + 1
            /\ nodes' = nodes
            /\ mat' = NextIdea([mat EXCEPT !.edges = Append(@, [ID |-> nextEdge + 1,
                                                               Edge |-> edgeReq(mat)])])
       ELSE /\ nodes' = AfterFailure(mat).nodes
            /\ edges' = AfterFailure(mat).edges
            /\ nextEdge' = nextEdge
            /\ mat' = Failed(mat)
    /\ UNCHANGED <<mindMaps, nextNode, keyVars, envVars, normVars, layoutVars>>

vars == <<mindMaps, nodes, edges, nextNode, nextEdge, apiKeys, nextKey, calls,
          secret, defaultKey, content, ideas, normalized,
          layoutArgs, placements, positioned, mat>>

StoreInit ==
    /\ mindMaps = <<>>
    /\ nodes = <<>>
    /\ edges = <<>>
    /\ nextNode = 0
    /\ nextEdge = 0

KeysInit ==
    /\ apiKeys = <<>>
    /\ nextKey = 0
    /\ calls = [c \in Calls |-> Idle]

\* The environment is whatever the deployment configured.
EnvInit ==
    /\ secret \in Secrets
    /\ defaultKey \in DefaultKeys

\* The graph handlers never read the environment: one deployment stands for
\* all of them.
EnvFixed ==
    /\ secret = <<1>>
    /\ defaultKey = ""

\* No reply has been received.
NormIdle ==
    /\ content = <<>>
    /\ ideas = <<>>
    /\ normalized = FALSE

\* No layout has been asked for and no CreateNodesFromIdeas call is in flight.
NoLayout == [StartX |-> 0, StartY |-> 0, Count |-> 0, Layout |-> ""]

PipeIdle ==
    /\ layoutArgs = NoLayout
    /\ placements = <<>>
    /\ positioned = FALSE
    /\ mat = Idle

Init == StoreInit /\ KeysInit /\ EnvFixed /\ NormIdle /\ PipeIdle

\* ------------------------------------------------------------- specifications
\* A handler that makes several database round trips takes one step per
\* round trip, and the steps of other calls run between them.  Each
\* specification below serves the handlers of one table with the requests its
\* claims need; the claims themselves are stated over the full request sets.

\* A private mind map, and a node on it without a parent.
PlainMapRequests == [Title : {"t1"}, Description : {""}, IsPublic : {FALSE}]
PlainNodeRequests ==
    [MindMapID : MapIds, ParentID : {NoID}, Content : {"c1"},
     PositionX : {1}, PositionY : {1}, NodeType : {"default"},
     StyleData : {NilJSON}, Metadata : {NilJSON}]

\* Edges from a node to itself, on any mind map.
LoopEdgeRequests ==
    {req \in [MindMapID : MapIds, SourceID : NodeIds, TargetID : NodeIds, EdgeType : {"default"}] :
        req.SourceID = req.TargetID}

\* One call at a time.
Solo == {1}

\* Every handler of the three tables, both users, ids that name a row, name
\* none and are no UUID, one call after the other;
\* two calls at a time are served per table in the specifications that follow.
Next ==
    \/ \E u \in Users, req \in MindMapCreateRequests : CreateMindMap(u, req)
    \/ \E u \in Users, m \in MapIds \cup {GhostMap, BadUUID} : GetMindMap(u, m)
    \/ \E c \in Solo, u \in Users, m \in MapIds \cup {GhostMap}, req \in MindMapUpdateRequests :
          UpdateMindMapBegin(c, u, m, req)
    \/ \E c \in Solo : UpdateMindMapWrite(c)
    \/ \E c \in Solo, u \in Users, m \in MapIds \cup {GhostMap} : DeleteMindMapBegin(c, u, m)
    \/ \E c \in Solo : DeleteMindMapWrite(c)
    \/ \E c \in Solo, u \in Users, req \in PlainNodeRequests : CreateNodeBegin(c, u, req)
    \/ \E c \in Solo : CreateNodeWrite(c)
    \/ \E c \in Solo, u \in Users, n \in NodeIds \cup {GhostNode, BadUUID} : GetNodeBegin(c, u, n)
    \/ \E c \in Solo : GetNodeAccess(c)
    \/ \E c \in Solo, u \in Users, m \in MapIds \cup {GhostMap} : GetNodesByMindMapBegin(c, u, m)
    \/ \E c \in Solo : GetNodesByMindMapList(c)
    \/ \E c \in Solo, u \in Users, n \in NodeIds \cup {GhostNode}, req \in NodeUpdateRequests :
          UpdateNodeBegin(c, u, n, req)
    \/ \E c \in Solo : UpdateNodeOwner(c)
    \/ \E c \in Solo : UpdateNodeWrite(c)
    \/ \E c \in Solo, u \in Users, n \in NodeIds \cup {GhostNode, BadUUID} : DeleteNodeBegin(c, u, n)
    \/ \E c \in Solo : DeleteNodeOwner(c)
    \/ \E c \in Solo : DeleteNodeWrite(c)
    \/ \E c \in Solo, u \in Users, req \in LoopEdgeRequests : CreateEdgeBegin(c, u, req)
    \/ \E c \in Solo : CreateEdgeWrite(c)
    \/ \E c \in Solo, u \in Users, e \in EdgeIds \cup {GhostEdge, BadUUID} : GetEdgeBegin(c, u, e)
    \/ \E c \in Solo : GetEdgeAccess(c)
    \/ \E c \in Solo, u \in Users, m \in MapIds \cup {GhostMap} : GetEdgesByMindMapBegin(c, u, m)
    \/ \E c \in Solo : GetEdgesByMindMapList(c)
    \/ \E c \in Solo, u \in Users, e \in EdgeIds \cup {GhostEdge, BadUUID} : DeleteEdgeBegin(c, u, e)
    \/ \E c \in Solo : DeleteEdgeOwner(c)
    \/ \E c \in Solo : DeleteEdgeWrite(c)
    \/ \E c \in Solo, u \in Users, s \in NodeIds \cup {NoID, GhostNode} :
          DeleteEdgeByNodesBegin(c, u, s, s)
    \/ \E c \in Solo : DeleteEdgeByNodesOwner(c)
    \/ \E c \in Solo : DeleteEdgeByNodesWrite(c)

Spec == Init /\ [][Next]_vars

\* The user whose requests are served where the claim is not about owners.
Gardeners == {"u1"}

\* The batches the position handler is served with: the empty one, and two
\* entries for two ids, so that two calls meet the same rows in both orders;
\* the claims are stated over every batch of Batches.
ShortBatches ==
    {b \in Batches : Len(b) = 0 \/ (Len(b) = MaxServed /\ b[1].ID # b[2].ID)}

\* A node without a parent, or under the first node.
BranchNodeRequests ==
    [MindMapID : MapIds, ParentID : {NoID, 1}, Content : {"c1"},
     PositionX : {1}, PositionY : {1}, NodeType : {"default"},
     StyleData : {NilJSON}, Metadata : {NilJSON}]

\* The position handler, two calls at a time: both users create maps and
\* nodes, and one of them moves and deletes nodes while a batch of position
\* updates is in its transaction.
NextBatch ==
    \/ \E u \in Users, req \in PlainMapRequests : CreateMindMap(u, req)
    \/ \E c \in Calls, u \in Users, req \in BranchNodeRequests : CreateNodeBegin(c, u, req)
    \/ \E c \in Calls : CreateNodeWrite(c)
    \/ \E c \in Calls, u \in Gardeners, n \in NodeIds : DeleteNodeBegin(c, u, n)
    \/ \E c \in Calls : DeleteNodeOwner(c)
    \/ \E c \in Calls : DeleteNodeWrite(c)
    \/ \E c \in Calls : DeleteNodeResume(c)
    \/ \E c \in Calls, u \in Gardeners, b \in ShortBatches : BatchUpdateNodePositionsBegin(c, u, b)
    \/ \E c \in Calls : BatchUpdateNodePositionsOwner(c)
    \/ \E c \in Calls : BatchUpdateNodePositionsBeginTx(c)
    \/ \E c \in Calls : BatchUpdateNodePositionsPrepare(c)
    \/ \E c \in Calls : BatchUpdateNodePositionsExec(c)
    \/ \E c \in Calls : BatchUpdateNodePositionsCommit(c)
    \/ \E c \in Calls : BatchUpdateNodePositionsRollback(c)
    \/ \E c \in Calls : Deadlock(c)

SpecBatch == Init /\ [][NextBatch]_vars

\* The edge handlers with what they need, two calls at a time: private maps,
\* nodes without a parent, edges created, read and deleted.
NextEdges ==
    \/ \E u \in Gardeners, req \in PlainMapRequests : CreateMindMap(u, req)
    \/ \E c \in Calls, u \in Gardeners, m \in MapIds : DeleteMindMapBegin(c, u, m)
    \/ \E c \in Calls : DeleteMindMapWrite(c)
    \/ \E c \in Calls, u \in Gardeners, req \in PlainNodeRequests : CreateNodeBegin(c, u, req)
    \/ \E c \in Calls : CreateNodeWrite(c)
    \/ \E c \in Calls, u \in Gardeners, n \in NodeIds : DeleteNodeBegin(c, u, n)
    \/ \E c \in Calls : DeleteNodeOwner(c)
    \/ \E c \in Calls : DeleteNodeWrite(c)
    \/ \E c \in Calls, u \in Gardeners, req \in EdgeCreateRequests : CreateEdgeBegin(c, u, req)
    \/ \E c \in Calls : CreateEdgeWrite(c)
    \/ \E c \in Calls, u \in Gardeners, e \in EdgeIds : GetEdgeBegin(c, u, e)
    \/ \E c \in Calls : GetEdgeAccess(c)
    \/ \E c \in Calls, u \in Gardeners, e \in EdgeIds : DeleteEdgeBegin(c, u, e)
    \/ \E c \in Calls : DeleteEdgeOwner(c)
    \/ \E c \in Calls : DeleteEdgeWrite(c)
    \/ \E c \in Calls, u \in Gardeners, s \in NodeIds, t \in NodeIds :
          DeleteEdgeByNodesBegin(c, u, s, t)
    \/ \E c \in Calls : DeleteEdgeByNodesOwner(c)
    \/ \E c \in Calls : DeleteEdgeByNodesWrite(c)

SpecEdges == Init /\ [][NextEdges]_vars

\* Concurrent requests on the api_keys table.
NextKeys ==
    \/ \E c \in Calls, u \in Users, req \in APIKeyCreateRequests, nonce \in Nonces :
          CreateAPIKeyBegin(c, u, req, nonce)
    \/ \E c \in Calls : CreateAPIKeyWrite(c)
    \/ \E c \in Calls : CreateAPIKeyReturn(c)
    \/ \E c \in Calls, u \in Users, k \in KeyIds \cup {GhostKey}, req \in APIKeyUpdateRequests, nonce \in Nonces :
          UpdateAPIKeyBegin(c, u, k, req, nonce)
    \/ \E c \in Calls : UpdateAPIKeyFind(c)
    \/ \E c \in Calls : UpdateAPIKeySetKey(c)
    \/ \E c \in Calls : UpdateAPIKeySetActive(c)
    \/ \E c \in Calls : UpdateAPIKeyReturn(c)
    \/ \E c \in Calls, u \in Users, k \in KeyIds \cup {GhostKey} : DeleteAPIKeyBegin(c, u, k)
    \/ \E c \in Calls : DeleteAPIKeyWrite(c)

SpecKeys == Init /\ [][NextKeys]_vars

\* Idea generation over the mind maps and stored keys it reads.
InitGen == StoreInit /\ KeysInit /\ EnvInit /\ NormIdle /\ PipeIdle

\* The handler writes nothing: it is served here for the first mind map and
\* a missing one, with a count below and above the range, beside the calls
\* that delete its mind map and store, switch off and on the key it reads
\* between its round trips; the claims are stated over every request and
\* every outcome.
ServedGenerationRequests ==
    {req \in GenerationRequests : req.MindMapID \in {1, GhostMap} /\ req.Count # 3}

\* The key updates served: those that only set is_active.
SwitchRequests == {req \in ActivationRequests : req.Key = ""}

\* The outcomes of the request served: two failures and a reply.
ServedOutcomes ==
    {NoReply(FALSE, 500, ""), NoReply(FALSE, 201, "choices"),
     [Err |-> FALSE, StatusCode |-> 200, Body |-> "choices", Content |-> SolarReply]}

NextGen ==
    \/ \E u \in Gardeners, req \in PlainMapRequests : CreateMindMap(u, req)
    \/ \E c \in Calls, u \in Gardeners, m \in MapIds : DeleteMindMapBegin(c, u, m)
    \/ \E c \in Calls : DeleteMindMapWrite(c)
    \/ \E c \in Calls, u \in Gardeners, req \in StoredKeyRequests, nonce \in Nonces :
          CreateAPIKeyBegin(c, u, req, nonce)
    \/ \E c \in Calls : CreateAPIKeyWrite(c)
    \/ \E c \in Calls : CreateAPIKeyReturn(c)
    \/ \E c \in Calls, u \in Gardeners, k \in KeyIds, req \in SwitchRequests, nonce \in Nonces :
          UpdateAPIKeyBegin(c, u, k, req, nonce)
    \/ \E c \in Calls : UpdateAPIKeyFind(c)
    \/ \E c \in Calls : UpdateAPIKeySetActive(c)
    \/ \E c \in Calls : UpdateAPIKeyReturn(c)
    \/ \E s \in Secrets, d \in DefaultKeys : Configure(s, d)
    \/ \E c \in Calls, u \in Users, req \in ServedGenerationRequests :
          GenerateIdeasBegin(c, u, req)
    \/ \E c \in Calls : GenerateIdeasKey(c)
    \/ \E c \in Calls, llm \in ServedOutcomes : GenerateIdeasSend(c, llm)

SpecGen == InitGen /\ [][NextGen]_vars

\* The normaliser alone, on every text of Texts.
InitNorm ==
    /\ StoreInit /\ KeysInit /\ EnvFixed /\ PipeIdle
    /\ content \in Texts
    /\ ideas = <<>>
    /\ normalized = FALSE

NextNorm == NormalizeReply

SpecNorm == InitNorm /\ [][NextNorm]_vars

\* The layout engine alone, on every argument of LayoutRequests.
InitLayout ==
    /\ StoreInit /\ KeysInit /\ EnvFixed /\ NormIdle
    /\ layoutArgs \in LayoutRequests
    /\ placements = <<>>
    /\ positioned = FALSE
    /\ mat = Idle

NextLayout == ComputePositions

SpecLayout == InitLayout /\ [][NextLayout]_vars

\* CreateNodesFromIdeas among the requests that can run between its
\* statements, one call beside it: a parent is created or deleted, an edge is
\* created.
NextMat ==
    \/ \E u \in Gardeners, req \in PlainMapRequests : CreateMindMap(u, req)
    \/ \E c \in Solo, u \in Gardeners, req \in PlainNodeRequests : CreateNodeBegin(c, u, req)
    \/ \E c \in Solo : CreateNodeWrite(c)
    \/ \E c \in Solo, u \in Gardeners, n \in NodeIds : DeleteNodeBegin(c, u, n)
    \/ \E c \in Solo : DeleteNodeOwner(c)
    \/ \E c \in Solo : DeleteNodeWrite(c)
    \/ \E c \in Solo, u \in Gardeners, req \in RivalEdgeRequests : CreateEdgeBegin(c, u, req)
    \/ \E c \in Solo : CreateEdgeWrite(c)
    \/ \E u \in Gardeners, req \in MaterializeRequests : CreateNodesFromIdeasBegin(u, req)
    \/ CreateNodesFromIdeasNode
    \/ CreateNodesFromIdeasEdge

SpecMat == Init /\ [][NextMat]_vars

\* The node handlers on private maps.  An update is served with one group
\* of fields given, so that every combination of updated fields is reached by
\* a sequence of them; the claims are stated over every update of
\* NodeFieldUpdates.
GroupsGiven(req) ==
    (IF req.Content # "" THEN 1 ELSE 0) + (IF req.PositionX # 0 THEN 1 ELSE 0)
    + (IF req.NodeType # "" THEN 1 ELSE 0)
GroupEdits == {req \in NodeEdits : GroupsGiven(req) = 1}

NextNodes ==
    \/ \E u \in Gardeners, req \in PlainMapRequests : CreateMindMap(u, req)
    \/ \E c \in Calls, u \in Gardeners, req \in PlainNodeRequests : CreateNodeBegin(c, u, req)
    \/ \E c \in Calls : CreateNodeWrite(c)
    \/ \E c \in Calls, u \in Users, n \in NodeIds \cup {GhostNode} : GetNodeBegin(c, u, n)
    \/ \E c \in Calls : GetNodeAccess(c)
    \/ \E c \in Calls, u \in Gardeners, n \in NodeIds \cup {GhostNode}, req \in GroupEdits :
          UpdateNodeBegin(c, u, n, req)
    \/ \E c \in Calls : UpdateNodeOwner(c)
    \/ \E c \in Calls : UpdateNodeWrite(c)
    \/ \E c \in Calls, u \in Gardeners, n \in NodeIds : DeleteNodeBegin(c, u, n)
    \/ \E c \in Calls : DeleteNodeOwner(c)
    \/ \E c \in Calls : DeleteNodeWrite(c)

SpecNodes == Init /\ [][NextNodes]_vars

\* The mind map handlers, with updates of the visibility flag and of the
\* status; the claims are stated over every update of MindMapFieldUpdates.
MindMapEdits == {req \in MindMapFieldUpdates : req.Title = "" /\ req.Description = ""}

NextMaps ==
    \/ \E u \in Users, req \in MindMapCreateRequests : CreateMindMap(u, req)
    \/ \E u \in Users, m \in MapIds \cup {GhostMap} : GetMindMap(u, m)
    \/ \E c \in Calls, u \in Users, m \in MapIds \cup {GhostMap}, req \in MindMapEdits :
          UpdateMindMapBegin(c, u, m, req)
    \/ \E c \in Calls : UpdateMindMapWrite(c)
    \/ \E c \in Calls, u \in Users, m \in MapIds \cup {GhostMap} : DeleteMindMapBegin(c, u, m)
    \/ \E c \in Calls : DeleteMindMapWrite(c)

SpecMaps == Init /\ [][NextMaps]_vars

\* The node handlers over trees of nodes: a node is created under a parent,
\* CreateNodesFromIdeas hangs ideas under it, edges join the nodes, and any
\* node is deleted.
TreeNodeRequests ==
    [MindMapID : MapIds, ParentID : {NoID, GhostNode} \cup NodeIds, Content : {"c1"},
     PositionX : {1}, PositionY : {1}, NodeType : {"default"},
     StyleData : {NilJSON}, Metadata : {NilJSON}]

TreeIdeaRequests ==
    [MindMapID : MapIds, ParentID : {NoID} \cup NodeIds,
     Ideas : IdeaLists \ {<<>>}, StartX : {0}, StartY : {40}, Layout : {"horizontal"}]

NextTree ==
    \/ \E u \in Gardeners, req \in PlainMapRequests : CreateMindMap(u, req)
    \/ \E c \in Solo, u \in Gardeners, req \in TreeNodeRequests : CreateNodeBegin(c, u, req)
    \/ \E c \in Solo : CreateNodeWrite(c)
    \/ \E c \in Solo, u \in Gardeners, n \in 1..PoolNodes : DeleteNodeBegin(c, u, n)
    \/ \E c \in Solo : DeleteNodeOwner(c)
    \/ \E c \in Solo : DeleteNodeWrite(c)
    \/ \E c \in Solo, u \in Gardeners, req \in RivalEdgeRequests : CreateEdgeBegin(c, u, req)
    \/ \E c \in Solo : CreateEdgeWrite(c)
    \/ \E u \in Gardeners, req \in TreeIdeaRequests : CreateNodesFromIdeasBegin(u, req)
    \/ CreateNodesFromIdeasNode
    \/ CreateNodesFromIdeasEdge

SpecTree == Init /\ [][NextTree]_vars

\* Every handler that writes the nodes table, over trees of nodes.
NextForest ==
    \/ \E u \in Gardeners, req \in PlainMapRequests : CreateMindMap(u, req)
    \/ \E c \in Solo, u \in Gardeners, req \in TreeNodeRequests : CreateNodeBegin(c, u, req)
    \/ \E c \in Solo : CreateNodeWrite(c)
    \/ \E c \in Solo, u \in Gardeners, n \in 1..PoolNodes, req \in NodeUpdateRequests : UpdateNodeBegin(c, u, n, req)
    \/ \E c \in Solo : UpdateNodeOwner(c)
    \/ \E c \in Solo : UpdateNodeWrite(c)
    \/ \E c \in Solo, u \in Gardeners, n \in 1..PoolNodes : DeleteNodeBegin(c, u, n)
    \/ \E c \in Solo : DeleteNodeOwner(c)
    \/ \E c \in Solo : DeleteNodeWrite(c)
    \/ \E c \in Solo, u \in Gardeners, b \in ShortBatches : BatchUpdateNodePositionsBegin(c, u, b)
    \/ \E c \in Solo : BatchUpdateNodePositionsOwner(c)
    \/ \E c \in Solo : BatchUpdateNodePositionsBeginTx(c)
    \/ \E c \in Solo : BatchUpdateNodePositionsPrepare(c)
    \/ \E c \in Solo : BatchUpdateNodePositionsExec(c)
    \/ \E c \in Solo : BatchUpdateNodePositionsCommit(c)
    \/ \E c \in Solo : BatchUpdateNodePositionsRollback(c)
    \/ \E u \in Gardeners, req \in TreeIdeaRequests : CreateNodesFromIdeasBegin(u, req)
    \/ CreateNodesFromIdeasNode
    \/ CreateNodesFromIdeasEdge

SpecForest == Init /\ [][NextForest]_vars

\* CreateNodesFromIdeas and the create handlers while the mind map is being
\* deleted: two handler calls are in flight beside CreateNodesFromIdeas, which
\* is served one idea, without a parent or under one.
RaceIdeaRequests == {req \in TreeIdeaRequests : Len(req.Ideas) = 1}
RaceEdgeRequests == {req \in RivalEdgeRequests : req.TargetID \in NodeIds}

NextRace ==
    \/ \E u \in Gardeners, req \in PlainMapRequests : CreateMindMap(u, req)
    \/ \E c \in Calls, u \in Gardeners, m \in MapIds : DeleteMindMapBegin(c, u, m)
    \/ \E c \in Calls : DeleteMindMapWrite(c)
    \/ \E c \in Calls, u \in Gardeners, req \in PlainNodeRequests : CreateNodeBegin(c, u, req)
    \/ \E c \in Calls : CreateNodeWrite(c)
    \/ \E c \in Calls, u \in Gardeners, req \in RaceEdgeRequests : CreateEdgeBegin(c, u, req)
    \/ \E c \in Calls : CreateEdgeWrite(c)
    \/ \E u \in Gardeners, req \in RaceIdeaRequests : CreateNodesFromIdeasBegin(u, req)
    \/ CreateNodesFromIdeasNode
    \/ CreateNodesFromIdeasEdge

SpecRace == Init /\ [][NextRace]_vars

VaultGenerationRequests == [MindMapID : MapIds, Count : {3}, Type : {"new"}, APIKey : {""}]

InitVault ==
    /\ StoreInit /\ KeysInit /\ NormIdle /\ PipeIdle
    /\ secret \in VaultSecrets
    /\ defaultKey = ""

NextVault ==
    \/ \E u \in Gardeners, req \in PlainMapRequests : CreateMindMap(u, req)
    \/ \E c \in Calls, u \in Gardeners, req \in StoredKeyRequests, nonce \in Nonces :
          CreateAPIKeyBegin(c, u, req, nonce)
    \/ \E c \in Calls : CreateAPIKeyWrite(c)
    \/ \E c \in Calls : CreateAPIKeyReturn(c)
    \/ \E s \in VaultSecrets : Configure(s, "")
    \/ \E c \in Calls, u \in Users, req \in VaultGenerationRequests :
          GenerateIdeasBegin(c, u, req)
    \/ \E c \in Calls : GenerateIdeasKey(c)
    \/ \E c \in Calls : GenerateIdeasSend(c, NoReply(FALSE, 500, ""))

SpecVault == InitVault /\ [][NextVault]_vars

\* ------------------------------------------------------------- claims
\* The request is answered Unauthorized and no table has changed.
Unauthorized(r) == r.status = "Unauthorized" /\ SameStore(r)

\* An entry of a batch is applied in ns: its node exists and holds the
\* position of the last entry of the batch that names it.
EntryApplied(ns, b, i) ==
    /\ b[i].ID \in DOMAIN ns
    /\ (\A j \in (i + 1)..Len(b) : b[j].ID # b[i].ID) =>
          /\ ns[b[i].ID].PositionX = b[i].PositionX
          /\ ns[b[i].ID].PositionY = b[i].PositionY

\* C1: BatchUpdatePositions is all-or-nothing: when the call returns, either
\* every listed update has been applied or no node position has changed.
C1_BatchAllOrNothing ==
    \A u \in Users, b \in Batches :
        LET r == BatchUpdateNodePositionsR(u, b)
        IN \/ r.nodes = nodes
           \/ \A i \in 1..Len(b) : EntryApplied(r.nodes, b, i)

\* C2: a user u who does not own the (not deleted) mind map M is answered
\* Unauthorized, with the store unchanged, on every update or delete of M,
\* of M's nodes and of M's edges; u's reads of M, its nodes and its edges
\* succeed exactly when M is public.
C2_NonOwnerRejected ==
    \A u \in Users, m \in DOMAIN mindMaps :
        (GetMindMapByID(m) /\ mindMaps[m].UserID # u) =>
            /\ \A req \in MindMapUpdateRequests : Unauthorized(UpdateMindMapR(u, m, req))
            /\ Unauthorized(DeleteMindMapR(u, m))
            /\ \A n \in NodesOf(m) :
                  /\ \A req \in NodeUpdateRequests : Unauthorized(UpdateNodeR(u, n, req))
                  /\ Unauthorized(DeleteNodeR(u, n))
                  /\ GetNodeR(u, n).status = "OK" <=> mindMaps[m].IsPublic
            /\ \A e \in EdgesOf(m) :
                  /\ Unauthorized(DeleteEdgeR(u, e))
                  /\ Unauthorized(DeleteEdgeByNodesR(u, edges[e].SourceID, edges[e].TargetID))
                  /\ GetEdgeR(u, e).status = "OK" <=> mindMaps[m].IsPublic
            /\ GetMindMapR(u, m).status = "OK" <=> mindMaps[m].IsPublic
            /\ GetNodesByMindMapR(u, m).status = "OK" <=> mindMaps[m].IsPublic
            /\ GetEdgesByMindMapR(u, m).status = "OK" <=> mindMaps[m].IsPublic

\* C3: a BatchUpdatePositions request of user u never changes the position
\* of a node of a mind map that u does not own.
C3_BatchOnlyOwnNodes ==
    \A u \in Users, b \in Batches :
        LET r == BatchUpdateNodePositionsR(u, b)
        IN \A n \in DOMAIN nodes :
              (r.nodes[n].PositionX # nodes[n].PositionX
                 \/ r.nodes[n].PositionY # nodes[n].PositionY)
              => mindMaps[nodes[n].MindMapID].UserID = u

\* C5: under every interleaving of concurrent CreateAPIKey calls there is at
\* most one api_keys row per (user, service), and a call whose pair has a row
\* when the call writes (also a row inserted after the call's SELECT) ends
\* with that row holding the call's key, active, and not with an error.
C5_OneKeyPerPair ==
    /\ \A k1, k2 \in DOMAIN apiKeys :
          (/\ apiKeys[k1].UserID = apiKeys[k2].UserID
           /\ apiKeys[k1].Service = apiKeys[k2].Service) => k1 = k2
    /\ \A c \in Calls :
          (/\ calls[c].pc = "selected"
           /\ KeysOf(apiKeys, calls[c].UserID, calls[c].Service) # {})
          => LET w == CreateAPIKeyWriteR(calls[c])
             IN /\ ~w.err
                /\ \E k \in KeysOf(w.apiKeys, calls[c].UserID, calls[c].Service) :
                      /\ w.apiKeys[k].EncryptedKey = calls[c].EncryptedKey
                      /\ w.apiKeys[k].IsActive

\* The key the claim expects Generate to use: the explicit one, else the
\* caller's stored "openai" key when its row is active and decrypts under
\* the configured secret, else the default; "" when there is none.
UsableStoredKeys(u) ==
    {k \in DOMAIN apiKeys :
        /\ apiKeys[k].UserID = u
        /\ apiKeys[k].Service = "openai"
        /\ apiKeys[k].IsActive
        /\ ~decryptAPIKey(apiKeys[k].EncryptedKey).err}

ExpectedKeyOver(default, u, req) ==
    IF req.APIKey # "" THEN req.APIKey
    ELSE LET usable == UsableStoredKeys(u)
         IN IF usable # {}
            THEN decryptAPIKey(apiKeys[CHOOSE k \in usable : TRUE].EncryptedKey).plaintext
            ELSE default

ExpectedKey(u, req) == ExpectedKeyOver(defaultKey, u, req)

Owns(u, m) == GetMindMapByID(m) /\ mindMaps[m].UserID = u
OwnedByAnother(u, m) == GetMindMapByID(m) /\ mindMaps[m].UserID # u

\* C6: a Generate request of the owner is sent with the explicit key when
\* one is given, else with the caller's stored "openai" key when that row
\* exists, is active and decrypts, else with the default key; an inactive
\* stored key is never the one sent; the request fails with NoCredential
\* exactly when none of the three yields a key.  The same holds of the key
\* read of a call that has passed its owner check, against the keys stored
\* when that read runs and the default key the call read before it, and a
\* call that goes on to send holds a key.
C6_KeyPriority ==
    /\ \A u \in Users, req \in GenerationRequests, llm \in LLMOutcomes :
          Owns(u, req.MindMapID) =>
              LET r == GenerateIdeasR(u, req, llm)
                  expected == ExpectedKey(u, req)
              IN /\ r.status = "NoCredential" <=> expected = ""
                 /\ expected # "" => r.requests = 1 /\ r.bearer = expected
                 /\ \A k \in KeysOf(apiKeys, u, "openai") :
                       (~apiKeys[k].IsActive /\ req.APIKey = "" /\ r.requests = 1)
                       => r.bearer = defaultKey
    /\ \A c \in Calls :
          /\ calls[c].pc = "authorized" =>
                /\ calls[c].req.APIKey = ""
                /\ ResolveAPIKey(calls[c].apiKey, calls[c].user, calls[c].req)
                   = ExpectedKeyOver(calls[c].apiKey, calls[c].user, calls[c].req)
          /\ calls[c].pc = "resolved" =>
                /\ calls[c].apiKey # ""
                /\ calls[c].req.APIKey # "" => calls[c].apiKey = calls[c].req.APIKey

\* The caller owns a mind map, holds an active stored key that decrypts and
\* a default key is configured: without an explicit key the request carries
\* the stored key, with one it carries the explicit key.
C6_Witness ==
    \E u \in Users, m \in DOMAIN mindMaps, llm \in LLMOutcomes :
        /\ Owns(u, m)
        /\ UsableStoredKeys(u) # {}
        /\ defaultKey = "kd"
        /\ GenerateIdeasR(u, [MindMapID |-> m, Count |-> 3, Type |-> "new", APIKey |-> ""],
                          llm).bearer = "k1"
        /\ GenerateIdeasR(u, [MindMapID |-> m, Count |-> 3, Type |-> "new", APIKey |-> "kx"],
                          llm).bearer = "kx"

\* Call c is a call of handler op that has answered.
Answered(c, op) == calls[c].pc = "done" /\ "op" \in DOMAIN calls[c] /\ calls[c].op = op

\* The request failed before anything was sent.
NothingSent(r, status) == r.status = status /\ r.requests = 0

\* A 2xx status.
Success(code) == code \in 200..299

\* One request was sent, and a transport error or a non-success status is
\* answered UpstreamError.
SentOnce(r, llm) ==
    /\ r.requests = 1
    /\ (llm.Err \/ ~Success(llm.StatusCode)) => r.status = "UpstreamError"

\* C7 as stated: nothing is sent when the caller does not own the mind map
\* (Unauthorized) or no key can be resolved (NoCredential); every other
\* invocation sends exactly one request.
C7_OneRequestAsStated ==
    \A u \in Users, req \in GenerationRequests, llm \in LLMOutcomes :
        LET r == GenerateIdeasR(u, req, llm)
        IN IF OwnedByAnother(u, req.MindMapID) THEN NothingSent(r, "Unauthorized")
           ELSE IF ExpectedKey(u, req) = "" THEN NothingSent(r, "NoCredential")
           ELSE SentOnce(r, llm)

\* C7: nothing is sent when the request names no mind map (BadRequest), when
\* the mind map is missing or deleted (NotFound), when the caller does not
\* own it (Unauthorized) or when no key can be resolved (NoCredential); every
\* other invocation sends exactly one request, never a second one, and is
\* answered UpstreamError when the request fails or its status is no 2xx.
\* A call in flight that passed the owner check is its mind map's owner's,
\* and a call that has answered sent nothing when it was refused and one
\* request otherwise.
C7_OneRequest ==
    /\ \A u \in Users, req \in GenerationRequests, llm \in LLMOutcomes :
          LET r == GenerateIdeasR(u, req, llm)
          IN IF req.MindMapID = NoID THEN NothingSent(r, "BadRequest")
             ELSE IF ~GetMindMapByID(req.MindMapID) THEN NothingSent(r, "NotFound")
             ELSE IF OwnedByAnother(u, req.MindMapID) THEN NothingSent(r, "Unauthorized")
             ELSE IF ExpectedKey(u, req) = "" THEN NothingSent(r, "NoCredential")
             ELSE SentOnce(r, llm)
    /\ \A c \in Calls :
          /\ calls[c].pc = "authorized" =>
                mindMaps[calls[c].req.MindMapID].UserID = calls[c].user
          /\ Answered(c, "GenerateIdeas") =>
                calls[c].requests
                = IF calls[c].status \in {"BadRequest", "NotFound", "Unauthorized", "NoCredential"}
                  THEN 0 ELSE 1

\* An owner with a key gets UpstreamError after one request, a caller who
\* is not the owner gets Unauthorized with none, and so does a request for
\* a deleted mind map (NotFound).
C7_Witness ==
    \E u \in Users, v \in Users, m \in DOMAIN mindMaps, d \in DOMAIN mindMaps :
        LET req == [MindMapID |-> m, Count |-> 3, Type |-> "new", APIKey |-> "kx"]
        IN /\ Owns(u, m) /\ v # u /\ ~GetMindMapByID(d)
           /\ GenerateIdeasR(u, req, NoReply(TRUE, 0, "")).status = "UpstreamError"
           /\ GenerateIdeasR(u, req, NoReply(TRUE, 0, "")).requests = 1
           /\ GenerateIdeasR(v, req, NoReply(TRUE, 0, "")).status = "Unauthorized"
           /\ GenerateIdeasR(u, [req EXCEPT !.MindMapID = d], NoReply(TRUE, 0, "")).status
              = "NotFound"

\* C9: when the reply is the JSON text of an array of N strings, Generate
\* yields exactly N ideas whose contents are those strings, in order.
C9_StringArrayReply ==
    \A u \in Users, req \in GenerationRequests, llm \in LLMOutcomes :
        LET r == GenerateIdeasR(u, req, llm)
        IN (r.status = "OK" /\ llm.Content = SolarReply) =>
              r.ideas = <<Idea(<<"Solar micro-grids">>), Idea(<<"Wind co-ops">>),
                          Idea(<<"Battery recycling">>)>>

\* A text without its whitespace tokens.
NoSpace(t) == SelectSeq(t, LAMBDA tok : tok \notin Whitespace)

\* The text is, up to whitespace, a flat JSON array whose elements are
\* objects or null, or the literal null: what the decoder takes for a list
\* of objects (null is the empty list, a null element an object without
\* fields).
DecodesAsObjects(t) ==
    LET s == NoSpace(t)
    IN \/ s = <<"null">>
       \/ s = <<"[", "]">>
       \/ /\ Len(s) >= 3 /\ Len(s) % 2 = 1
          /\ s[1] = "[" /\ s[Len(s)] = "]"
          /\ \A i \in 2..(Len(s) - 1) :
                IF i % 2 = 0 THEN s[i] \in Objects \cup {"null"} ELSE s[i] = ","

ElementsOf(t) ==
    LET s == NoSpace(t)
    IN IF Len(s) < 3 THEN <<>> ELSE [i \in 1..((Len(s) - 1) \div 2) |-> s[2 * i]]

IdeasOfElements(es) == [i \in 1..Len(es) |-> IdeaOfRaw(es[i])]

\* The part of the text from its first "[" to its last "]", when the last
\* "]" comes after the first "[".
BracketPairs(t) ==
    {p \in (1..Len(t)) \X (1..Len(t)) :
        /\ t[p[1]] = "[" /\ \A i \in 1..(p[1] - 1) : t[i] # "["
        /\ t[p[2]] = "]" /\ \A i \in (p[2] + 1)..Len(t) : t[i] # "]"
        /\ p[1] < p[2]}

HasBracketed(t) == BracketPairs(t) # {}
Bracketed(t) == LET p == CHOOSE p \in BracketPairs(t) : TRUE IN SubSeq(t, p[1], p[2])

\* The lines of a text, by the positions of its newlines; a line trimmed of
\* the spaces at its ends; the non-blank lines in order.
Newlines(t) == {i \in 1..Len(t) : t[i] = "NL"}
LineStarts(t) == {1} \cup {i + 1 : i \in Newlines(t)}
LineAt(t, start) ==
    LET stop == IF \E i \in Newlines(t) : i >= start
                THEN (CHOOSE i \in Newlines(t) : i >= start /\ \A j \in Newlines(t) : j >= start => i <= j) - 1
                ELSE Len(t)
        solid == {i \in start..stop : t[i] # "SP"}
    IN IF solid = {} THEN <<>>
       ELSE SubSeq(t, CHOOSE i \in solid : \A j \in solid : i <= j,
                      CHOOSE i \in solid : \A j \in solid : i >= j)

NonBlankStarts(t) == {b \in LineStarts(t) : LineAt(t, b) # <<>>}

IsLineIdeas(is, t) ==
    /\ Len(is) = Cardinality(NonBlankStarts(t))
    /\ \A k \in 1..Len(is) :
          \E b \in NonBlankStarts(t) :
              /\ Cardinality({c \in NonBlankStarts(t) : c < b}) = k - 1
              /\ is[k] = Idea(LineAt(t, b))

\* The text is, up to whitespace, a JSON array of objects: brackets around
\* objects separated by commas, or around nothing.  The literal null is no
\* array, and an array with a null element is not one of objects.
IsArrayOfObjects(t) ==
    LET s == NoSpace(t)
    IN \/ s = <<"[", "]">>
       \/ /\ Len(s) >= 3 /\ Len(s) % 2 = 1
          /\ s[1] = "[" /\ s[Len(s)] = "]"
          /\ \A i \in 2..(Len(s) - 1) :
                IF i % 2 = 0 THEN s[i] \in Objects ELSE s[i] = ","

\* C8: the normaliser always returns a list of ideas.  When the whole text
\* is a JSON array of objects, the ideas are those of its elements, in
\* order; else, when the part from the first "[" to the last "]" parses as
\* a JSON array, the ideas are those of its elements, in order; else the
\* ideas are the non-blank lines of the text, in order.  A later strategy is
\* never the source of the ideas when an earlier one succeeded.
C8_FirstSuccessWins ==
    normalized =>
        /\ DOMAIN ideas = 1..Len(ideas)
        /\ IF IsArrayOfObjects(content)
           THEN ideas = IdeasOfElements(ElementsOf(content))
           ELSE IF HasBracketed(content) /\ DecodesAsObjects(Bracketed(content))
           THEN ideas = IdeasOfElements(ElementsOf(Bracketed(content)))
           ELSE IsLineIdeas(ideas, content)

\* The arrays of objects, and the places where a text holds one.
ObjectSeqs == UNION {[1..n -> Elements \cap Objects] : n \in 0..MaxElems}

Holds(t, A, i) == i + Len(A) <= Len(t) /\ SubSeq(t, i + 1, i + Len(A)) = A
Before(t, i) == {t[j] : j \in 1..i}
After(t, A, i) == {t[j] : j \in (i + Len(A) + 1)..Len(t)}

\* C10 as stated: for every well-formed array A of objects, the normaliser
\* on A alone yields one idea per element, and on any text that holds A
\* between a text before and a text after it yields the same ideas.
C10_EmbeddedAsStated ==
    normalized =>
        \A es \in ObjectSeqs : \A i \in 0..Len(content) :
            Holds(content, MakeArray(es), i) =>
                ideas = Normalize(MakeArray(es)) /\ Len(ideas) = Len(es)

\* C10: for every well-formed array A of objects, the normaliser on A alone
\* yields one idea per element, and on a text that holds A with no "[" before
\* it and no "]" after it yields the same ideas.
C10_Embedded ==
    normalized =>
        \A es \in ObjectSeqs : \A i \in 0..Len(content) :
            (/\ Holds(content, MakeArray(es), i)
             /\ "[" \notin Before(content, i)
             /\ "]" \notin After(content, MakeArray(es), i))
            => ideas = Normalize(MakeArray(es)) /\ Len(ideas) = Len(es)

\* The normaliser has run on an array of two objects with prose on both
\* sides and returned the two ideas of the array.
C10_Witness ==
    /\ normalized
    /\ \E es \in ObjectSeqs :
          /\ Len(es) = 2 /\ es[1] # es[2]
          /\ Holds(content, MakeArray(es), 1)
          /\ Len(content) = Len(MakeArray(es)) + 2
          /\ content[1] \in Words /\ content[Len(content)] \in Words
          /\ ideas = <<IdeaOfRaw(es[1]), IdeaOfRaw(es[2])>>

\* The mind map of the request holds an edge for the pair of the request.
PairTaken(req) ==
    \E e \in EdgesOf(req.MindMapID) :
        edges[e].SourceID = req.SourceID /\ edges[e].TargetID = req.TargetID

\* C4: there is at most one edge per ordered (source, target) pair within a
\* mind map, and a CreateEdge for a pair that already has an edge on the same
\* mind map is rejected and leaves the edges unchanged, also when the edge
\* was inserted after the handler's check of the mind map.
C4_UniqueEdge ==
    /\ \A e1, e2 \in DOMAIN edges :
          (/\ edges[e1].MindMapID = edges[e2].MindMapID
           /\ edges[e1].SourceID = edges[e2].SourceID
           /\ edges[e1].TargetID = edges[e2].TargetID) => e1 = e2
    /\ \A u \in Users, req \in EdgeCreateRequests :
          PairTaken(req) => /\ CreateEdgeR(u, req).status # "OK"
                            /\ CreateEdgeR(u, req).edges = edges
    /\ \A c \in Calls :
          (At(c, "CreateEdge") /\ PairTaken(calls[c].arg))
          => /\ CreateEdgeWriteR(calls[c].arg).status # "OK"
             /\ CreateEdgeWriteR(calls[c].arg).edges = edges

\* An edge is stored and its owner's request for the same pair on the same
\* mind map is refused by the database.
C4_Witness ==
    \E e \in DOMAIN edges :
        /\ GetMindMapByID(edges[e].MindMapID)
        /\ CreateEdgeR(mindMaps[edges[e].MindMapID].UserID,
                       [MindMapID |-> edges[e].MindMapID, SourceID |-> edges[e].SourceID,
                        TargetID |-> edges[e].TargetID, EdgeType |-> "default"]).status
           = "StoreError"

\* The ideas all carry confidence 0.7.
AllConfident(is) == \A k \in 1..Len(is) : is[k].Confidence = Confidence

\* The text has no bracket: plain prose.
NoBrackets(t) == \A i \in 1..Len(t) : t[i] \notin {"[", "]"}

\* C11: when neither the whole text nor its bracketed part decodes, the
\* normaliser returns one idea per non-blank line, in line order, each with
\* the trimmed line as content and confidence 0.7; a text without brackets
\* that has k non-blank lines yields exactly k ideas.
C11_LineFallback ==
    normalized =>
        /\ (/\ ~DecodesAsObjects(content)
            /\ ~(HasBracketed(content) /\ DecodesAsObjects(Bracketed(content))))
           => IsLineIdeas(ideas, content) /\ AllConfident(ideas)
        /\ NoBrackets(content) => Len(ideas) = Cardinality(NonBlankStarts(content))

\* The fields of an object that are present, and the first of them in the
\* order idea, content, text, description.
FieldOrder == <<"idea", "content", "text", "description">>
Present(o) == {k \in 1..4 : Fields(o)[FieldOrder[k]] # "-"}
FirstPresent(o) == FieldOrder[CHOOSE k \in Present(o) : \A j \in Present(o) : k <= j]

\* The elements of the array the ideas were taken from, <<>> when the ideas
\* are lines.
ParsedElements(t) ==
    IF DecodesAsObjects(t) THEN ElementsOf(t)
    ELSE IF HasBracketed(t) /\ DecodesAsObjects(Bracketed(t)) THEN ElementsOf(Bracketed(t))
    ELSE <<>>

\* C12: for every object of a parsed array, the idea's content is the value
\* of the first field present among idea, content, text, description, and its
\* confidence is 0.7; no idea has a content that is not the value of one of
\* the four fields of its object.
C12_FirstPresentField ==
    normalized =>
        \A i \in 1..Len(ParsedElements(content)) :
            LET o == ParsedElements(content)[i]
            IN o \in Objects =>
                  /\ i <= Len(ideas)
                  /\ ideas[i].Confidence = Confidence
                  /\ Present(o) # {}
                  /\ ideas[i].Content = TextOf(Fields(o)[FirstPresent(o)])

\* The requested counts the clamp is tried on, around both of its limits.
RequestedCounts == (0 - 2)..12

CountedRequest(m, c) == [MindMapID |-> m, Count |-> c, Type |-> "new", APIKey |-> "kx"]

\* C16: the count Generate builds its prompt with is always within 1..10: a
\* requested count <= 0 becomes 5, one above 10 becomes 10, and one in 1..10
\* is used unchanged.  The count a call in flight holds after its owner
\* check, and the count of a request that was sent, are within 1..10.
C16_CountClamped ==
    /\ \A u \in Users, m \in DOMAIN mindMaps, c \in RequestedCounts,
          llm \in {NoReply(FALSE, 500, ""), NoReply(FALSE, 200, "nochoices")} :
          LET r == GenerateIdeasR(u, CountedRequest(m, c), llm)
          IN r.requests = 1 =>
                /\ r.count \in 1..10
                /\ c <= 0 => r.count = 5
                /\ c > 10 => r.count = 10
                /\ c \in 1..10 => r.count = c
    /\ \A c \in Calls :
          /\ calls[c].pc \in {"authorized", "resolved"} => calls[c].req.Count \in 1..10
          /\ (Answered(c, "GenerateIdeas") /\ calls[c].requests = 1) =>
                calls[c].count \in 1..10

\* An owner's requests for 0, 3 and 11 ideas are sent with 5, 3 and 10.
C16_Witness ==
    \E u \in Users, m \in DOMAIN mindMaps :
        /\ Owns(u, m)
        /\ GenerateIdeasR(u, CountedRequest(m, 0), NoReply(FALSE, 500, "")).count = 5
        /\ GenerateIdeasR(u, CountedRequest(m, 3), NoReply(FALSE, 500, "")).count = 3
        /\ GenerateIdeasR(u, CountedRequest(m, 11), NoReply(FALSE, 500, "")).count = 10

\* The x offsets of the computed points from the anchor.
OffsetsX == {placements[k].X - layoutArgs.StartX : k \in 1..Len(placements)}

Horizontal == positioned /\ layoutArgs.Layout = "horizontal" /\ layoutArgs.Count >= 1

\* All points on the anchor's y, consecutive points 250 apart in x.
OnARow ==
    /\ Len(placements) = layoutArgs.Count
    /\ \A k \in 1..Len(placements) : placements[k].Y = layoutArgs.StartY
    /\ \A k \in 1..(Len(placements) - 1) : placements[k + 1].X - placements[k].X = 250

ThreeAtOrigin ==
    (layoutArgs.Count = 3 /\ layoutArgs.StartX = 0 /\ layoutArgs.StartY = 0)
    => {placements[k].X : k \in 1..3} = {0 - 250, 0, 250}

\* C15 as stated: for the horizontal layout and every count >= 1, all points
\* have the anchor's y, consecutive points are 250 apart in x, and the x
\* offsets from the anchor are symmetric about 0; three points at (0,0) have
\* x in {-250, 0, 250}.
C15_HorizontalAsStated ==
    Horizontal =>
        /\ OnARow
        /\ \A a \in OffsetsX : (0 - a) \in OffsetsX
        /\ ThreeAtOrigin

\* C15: for the horizontal layout and every count >= 1, all points have the
\* anchor's y, consecutive points are 250 apart in x, and point i (from 0) is
\* at offset (i - count/2) * 250 with the integer quotient: the offsets are
\* symmetric about 0 when count is odd and about -125 when count is even;
\* three points at (0,0) have x in {-250, 0, 250}.
C15_Horizontal ==
    Horizontal =>
        /\ OnARow
        /\ layoutArgs.Count % 2 = 1 => \A a \in OffsetsX : (0 - a) \in OffsetsX
        /\ layoutArgs.Count % 2 = 0 => \A a \in OffsetsX : (0 - 250 - a) \in OffsetsX
        /\ ThreeAtOrigin

\* The layout engine has placed three points in a row around the origin.
C15_Witness ==
    /\ Horizontal
    /\ layoutArgs = [StartX |-> 0, StartY |-> 0, Count |-> 3, Layout |-> "horizontal"]
    /\ placements = <<Position(0 - 250, 0), Position(0, 0), Position(250, 0)>>

\* The call has answered 200 with the nodes and edges it created.
Materialized == mat.pc = "done" /\ mat.status = "OK"

\* C13: a successful Materialize over n ideas has created exactly n nodes,
\* the i-th with the i-th idea's content, the i-th computed position and node
\* type "idea"; with a parent it has created exactly n edges, the i-th from
\* the parent to the i-th new node with edge type "idea", and without a
\* parent it has created no edge.
C13_OneNodePerIdea ==
    Materialized =>
        LET req == mat.req
            n == Len(req.Ideas)
            ps == calculateNodePositions(req.StartX, req.StartY, n, req.Layout)
        IN /\ Len(mat.nodes) = n
           /\ \A i \in 1..n :
                 /\ mat.nodes[i].Node.MindMapID = req.MindMapID
                 /\ mat.nodes[i].Node.Content = req.Ideas[i].Content
                 /\ mat.nodes[i].Node.PositionX = ps[i].X
                 /\ mat.nodes[i].Node.PositionY = ps[i].Y
                 /\ mat.nodes[i].Node.NodeType = "idea"
                 /\ \A j \in 1..n : mat.nodes[i].ID = mat.nodes[j].ID => i = j
           /\ Len(mat.edges) = IF req.ParentID # NoID THEN n ELSE 0
           /\ \A i \in 1..Len(mat.edges) :
                 /\ mat.edges[i].Edge.SourceID = req.ParentID
                 /\ mat.edges[i].Edge.TargetID = mat.nodes[i].ID
                 /\ mat.edges[i].Edge.EdgeType = "idea"
                 /\ \A j \in 1..Len(mat.edges) : mat.edges[i].ID = mat.edges[j].ID => i = j

\* A call with a parent and two ideas has answered with two nodes and two
\* edges, which are in the store as it created them.
C13_Witness ==
    /\ Materialized
    /\ mat.req.ParentID # NoID
    /\ Len(mat.req.Ideas) = 2 /\ Len(mat.nodes) = 2 /\ Len(mat.edges) = 2
    /\ \A i \in 1..2 :
          /\ mat.nodes[i].ID \in DOMAIN nodes /\ nodes[mat.nodes[i].ID] = mat.nodes[i].Node
          /\ mat.edges[i].ID \in DOMAIN edges /\ edges[mat.edges[i].ID] = mat.edges[i].Edge

\* The call is in its loop, and it has returned on a failed statement.
InLoop == mat.pc \in {"node", "edge"}
HasFailed == mat.pc = "done" /\ mat.status = "StoreError"

\* C14: when a node or edge creation of a Materialize call fails, the call
\* returns the error at once, with the loop where it stood (no later idea is
\* attempted, then or afterwards), and the failing step removes nothing: every
\* node and edge in the store before it, those the call created included, is
\* in the store after it.
C14_NoRollback ==
    [][/\ (InLoop /\ HasFailed') =>
              /\ nodes' = nodes /\ edges' = edges
              /\ mat'.i = mat.i /\ mat'.nodes = mat.nodes /\ mat'.edges = mat.edges
       /\ HasFailed => mat' = mat]_vars

\* The call failed at the edge of an idea that is not the last one, after it
\* had created a node, and what it had created is still in the store.
C14_Witness ==
    /\ HasFailed
    /\ mat.i < Len(mat.req.Ideas)
    /\ Len(mat.nodes) >= 1
    /\ \A k \in 1..Len(mat.nodes) : mat.nodes[k].ID \in DOMAIN nodes
    /\ \A k \in 1..Len(mat.edges) : mat.edges[k].ID \in DOMAIN edges

\* The value a field holds after an update: the one supplied when it is not
\* the empty one, else the one held before.
Kept(new, empty, old) == IF new # empty THEN new ELSE old

\* The answer r to an update of node n: every other node is as it was; a
\* refused update changes no node; an accepted one leaves each field at the
\* value supplied or, when that is empty or zero, at the value held before.
NodeUpdateKeeps(r, n, req) ==
    /\ \A k \in DOMAIN nodes \ {n} : k \in DOMAIN r.nodes /\ r.nodes[k] = nodes[k]
    /\ r.status # "OK" => r.nodes = nodes
    /\ r.status = "OK" =>
          /\ r.nodes[n].Content = Kept(req.Content, "", nodes[n].Content)
          /\ r.nodes[n].PositionX = Kept(req.PositionX, 0, nodes[n].PositionX)
          /\ r.nodes[n].PositionY = Kept(req.PositionY, 0, nodes[n].PositionY)
          /\ r.nodes[n].NodeType = Kept(req.NodeType, "", nodes[n].NodeType)
          /\ r.nodes[n].StyleData = Kept(req.StyleData, NilJSON, nodes[n].StyleData)
          /\ r.nodes[n].Metadata = Kept(req.Metadata, NilJSON, nodes[n].Metadata)
          /\ nodes[n].Content # "" => r.nodes[n].Content # ""
          /\ nodes[n].PositionX # 0 => r.nodes[n].PositionX # 0
          /\ nodes[n].PositionY # 0 => r.nodes[n].PositionY # 0
          /\ r.nodes[n].MindMapID = nodes[n].MindMapID
          /\ r.nodes[n].ParentID = nodes[n].ParentID

\* C17: after UpdateNode, the content, position x, position y, type, style
\* and metadata of the node each equal the non-empty / non-zero value supplied
\* or the value held before: the content is never cleared to the empty string
\* and a coordinate never becomes 0; no other node is modified.  The same
\* holds of the UPDATE of a call that has passed its checks, against the
\* values held when the UPDATE runs; when the node is gone by then, the call
\* is refused and changes nothing.
C17_NodeUpdateKeepsEmpty ==
    /\ \A u \in Users, n \in DOMAIN nodes, req \in NodeFieldUpdates :
          NodeUpdateKeeps(UpdateNodeR(u, n, req), n, req)
    /\ \A c \in Calls :
          At(c, "UpdateNode") =>
              LET n == calls[c].arg.ID
                  r == UpdateNodeWriteR(n, calls[c].arg.req)
              IN IF n \in DOMAIN nodes THEN NodeUpdateKeeps(r, n, calls[c].arg.req)
                 ELSE r.status # "OK" /\ SameStore(r)

\* A node whose content was updated stands beside another node; its owner's
\* update that gives only a position and a style changes those and keeps the
\* content, the type and the metadata.
C17_Witness ==
    \E n \in DOMAIN nodes, k \in DOMAIN nodes :
        LET req == [Content |-> "", PositionX |-> 2, PositionY |-> 0, NodeType |-> "",
                    StyleData |-> "{s}", Metadata |-> NilJSON]
            r == UpdateNodeR(mindMaps[nodes[n].MindMapID].UserID, n, req)
        IN /\ k # n
           /\ nodes[n].Content = "c2" /\ nodes[n].PositionX = 1 /\ nodes[n].StyleData = EmptyJSON
           /\ r.status = "OK"
           /\ r.nodes[n] = [nodes[n] EXCEPT !.PositionX = 2, !.StyleData = "{s}"]
           /\ r.nodes[k] = nodes[k]

\* C18: after an UpdateMindMap whose title, description, visibility flag or
\* status is empty / zero-valued (false for the flag), that field of the mind
\* map keeps the value it had: an update that gives only a title leaves a
\* public mind map public.
C18_MapUpdateKeepsEmpty ==
    \A u \in Users, m \in DOMAIN mindMaps, req \in MindMapFieldUpdates :
        LET r == UpdateMindMapR(u, m, req)
        IN r.status = "OK" =>
              /\ req.Title = "" => r.mindMaps[m].Title = mindMaps[m].Title
              /\ req.Description = "" => r.mindMaps[m].Description = mindMaps[m].Description
              /\ req.IsPublic = FALSE => r.mindMaps[m].IsPublic = mindMaps[m].IsPublic
              /\ req.Status = "" => r.mindMaps[m].Status = mindMaps[m].Status

Deleted(m) == m \in DOMAIN mindMaps /\ mindMaps[m].Status = "deleted"

\* C19: no step removes a mind map record or returns a deleted mind map to
\* another status; a DeleteMindMap that succeeds sets the status to deleted
\* and keeps every record; every read, update and delete of a deleted mind
\* map reports not found and changes nothing, also the update or delete that
\* passed its checks before the mind map was deleted.
C19_SoftDelete ==
    [][/\ \A m \in DOMAIN mindMaps :
              /\ m \in DOMAIN mindMaps'
              /\ Deleted(m) => mindMaps'[m].Status = "deleted"
       /\ \A u \in Users, m \in DOMAIN mindMaps :
              /\ DeleteMindMapR(u, m).status = "OK" =>
                    /\ DOMAIN DeleteMindMapR(u, m).mindMaps = DOMAIN mindMaps
                    /\ DeleteMindMapR(u, m).mindMaps[m].Status = "deleted"
              /\ Deleted(m) =>
                    /\ GetMindMapR(u, m).status = "NotFound"
                    /\ DeleteMindMapR(u, m).status = "NotFound"
                    /\ SameStore(DeleteMindMapR(u, m))
                    /\ \A req \in MindMapFieldUpdates :
                          /\ UpdateMindMapR(u, m, req).status = "NotFound"
                          /\ SameStore(UpdateMindMapR(u, m, req))
       /\ \A c \in Calls :
              /\ (At(c, "UpdateMindMap") /\ Deleted(calls[c].arg.ID)) =>
                    LET r == UpdateMindMapWriteR(calls[c].arg.ID, calls[c].arg.req)
                    IN r.status = "NotFound" /\ SameStore(r)
              /\ (At(c, "DeleteMindMap") /\ Deleted(calls[c].arg.ID)) =>
                    LET r == DeleteMindMapWriteR(calls[c].arg.ID)
                    IN r.status = "NotFound" /\ SameStore(r)]_vars

\* A mind map is deleted beside one that is not, and its owner's update that
\* asks for the status active is answered not found.
C19_Witness ==
    \E m \in DOMAIN mindMaps, k \in DOMAIN mindMaps :
        /\ Deleted(m) /\ ~Deleted(k)
        /\ UpdateMindMapR(mindMaps[m].UserID, m,
                          [Title |-> "", Description |-> "", IsPublic |-> FALSE,
                           Status |-> "active"]).status = "NotFound"

\* C20: after a DeleteMindMap(M) that succeeds, the store holds no node and
\* no edge whose mind map is M.
C20_DeleteCascades ==
    \A u \in Users, m \in DOMAIN mindMaps :
        LET r == DeleteMindMapR(u, m)
        IN r.status = "OK" =>
              /\ \A n \in DOMAIN r.nodes : r.nodes[n].MindMapID # m
              /\ \A e \in DOMAIN r.edges : r.edges[e].MindMapID # m

\* Following parent links from c reaches n within k links.
RECURSIVE Reaches(_, _, _)
Reaches(c, n, k) ==
    \/ c = n
    \/ /\ k > 0
       /\ c \in DOMAIN nodes
       /\ nodes[c].ParentID # NoID
       /\ Reaches(nodes[c].ParentID, n, k - 1)

\* n and the nodes under it.
Subtree(n) == {c \in DOMAIN nodes : Reaches(c, n, Cardinality(DOMAIN nodes))}

\* Every edge joins two stored nodes and every parent is a stored node.
References ==
    /\ \A e \in DOMAIN edges :
          edges[e].SourceID \in DOMAIN nodes /\ edges[e].TargetID \in DOMAIN nodes
    /\ \A n \in DOMAIN nodes :
          nodes[n].ParentID = NoID \/ nodes[n].ParentID \in DOMAIN nodes

\* The answer r to a delete of the stored node n: an accepted one removes n,
\* every node from which parent links lead to n and every edge at a removed
\* node, and leaves the rest as it was; a refused one removes nothing.
NodeDeleteCascades(r, n) ==
    LET kept == {e \in DOMAIN edges : edges[e].SourceID \notin Subtree(n)
                                       /\ edges[e].TargetID \notin Subtree(n)}
    IN IF r.status = "OK"
       THEN /\ DOMAIN r.nodes = DOMAIN nodes \ Subtree(n)
            /\ \A c \in DOMAIN r.nodes : r.nodes[c] = nodes[c]
            /\ DOMAIN r.edges = kept
            /\ \A e \in DOMAIN r.edges : r.edges[e] = edges[e]
            /\ r.mindMaps = mindMaps
       ELSE SameStore(r)

\* C21: a DeleteNode(n) that succeeds removes n, every node from which parent
\* links lead to n, and every edge whose source or target is a removed node;
\* every other node and edge stays as it was; a DeleteNode that fails removes
\* nothing.  The same holds of the DELETE of a call that has passed its
\* checks or waits for a row inside its cascade; when the node is gone by
\* then, the call is refused.  In every
\* reachable state each edge's source and target exist and each node's
\* parent, when set, exists.
C21_DeleteNodeCascade ==
    /\ References
    /\ \A u \in Users, n \in DOMAIN nodes : NodeDeleteCascades(DeleteNodeR(u, n), n)
    /\ \A c \in Calls :
          (At(c, "DeleteNode") \/ calls[c].pc = "blocked") =>
              LET n == calls[c].arg.ID
                  r == DeleteNodeWriteR(n)
              IN IF n \in DOMAIN nodes THEN r.status = "OK" /\ NodeDeleteCascades(r, n)
                 ELSE r.status # "OK" /\ SameStore(r)

\* A node has a child and a grandchild with an edge to the grandchild; its
\* owner's DeleteNode of the child removes the child, the grandchild and the
\* edge, and keeps the node.
C21_Witness ==
    \E a \in DOMAIN nodes, b \in DOMAIN nodes, c \in DOMAIN nodes, e \in DOMAIN edges :
        LET r == DeleteNodeR(mindMaps[nodes[b].MindMapID].UserID, b)
        IN /\ nodes[b].ParentID = a /\ nodes[c].ParentID = b
           /\ edges[e].TargetID = c
           /\ r.status = "OK"
           /\ DOMAIN r.nodes = DOMAIN nodes \ {b, c}
           /\ e \notin DOMAIN r.edges

\* The nodes that edges lead to from the nodes of ns, in up to k steps.
Successors(ns) == {edges[e].TargetID : e \in {x \in DOMAIN edges : edges[x].SourceID \in ns}}

RECURSIVE EdgeReach(_, _)
EdgeReach(ns, k) == IF k = 0 THEN ns ELSE EdgeReach(ns \cup Successors(ns), k - 1)

\* C22: the edges never hold a directed cycle: no edge's source is reached
\* from its target by following edges, so no edge has its source as target
\* and no two edges are A -> B and B -> A.
C22_EdgesAcyclic ==
    \A e \in DOMAIN edges :
        edges[e].SourceID \notin EdgeReach({edges[e].TargetID}, Cardinality(DOMAIN edges))

\* C23: under every configured secret (shorter than, of, or longer than
\* KeySize bytes), decrypting what encrypt returned for a plaintext succeeds
\* and returns that plaintext.
C23_RoundTrip ==
    \A P \in Plaintexts, nonce \in Nonces :
        decryptAPIKey(encryptAPIKey(P, nonce)) = [err |-> FALSE, plaintext |-> P]

\* The secret is longer than KeySize bytes and a key stored under it is
\* handed out as it was given.
C23_Witness ==
    /\ Len(secret) > KeySize
    /\ \E u \in Users :
          /\ KeysOf(apiKeys, u, "openai") # {}
          /\ GetDecryptedAPIKey(u, "openai") = [err |-> FALSE, key |-> "k1"]

\* The stored key k opens under the configured secret.
Opens(k) == ~decryptAPIKey(apiKeys[k].EncryptedKey).err

\* The bytes of a secret that make its key.
KeyBytes(s) == SubSeq(s, 1, IF Len(s) > KeySize THEN KeySize ELSE Len(s))

\* C24 as stated: when the configured secret changes to a different one,
\* every stored key that opened under the old secret fails to decrypt under
\* the new one.
C24_SecretChangeAsStated ==
    [][\A k \in DOMAIN apiKeys :
          (secret' # secret /\ apiKeys'[k] = apiKeys[k] /\ Opens(k)) => ~Opens(k)']_vars

\* C24: when the configured secret changes to one that differs from it
\* within the first KeySize bytes, every stored key that opened under the old
\* secret fails to decrypt under the new one; two secrets that agree on their
\* first KeySize bytes open the same keys.
C24_SecretChange ==
    [][\A k \in DOMAIN apiKeys :
          (apiKeys'[k] = apiKeys[k] /\ Opens(k)) =>
              IF KeyBytes(secret') # KeyBytes(secret) THEN ~Opens(k)' ELSE Opens(k)']_vars

\* A stored key, active, does not open under the configured secret, and
\* reading it fails.
C24_Witness ==
    \E u \in Users :
        /\ KeysOf(apiKeys, u, "openai") # {}
        /\ \A k \in KeysOf(apiKeys, u, "openai") : apiKeys[k].IsActive /\ ~Opens(k)
        /\ GetDecryptedAPIKey(u, "openai").err

\* The caller's stored "openai" key is active and does not decrypt under the
\* configured secret.
StoredKeyCorrupt(u) ==
    /\ KeysOf(apiKeys, u, "openai") # {}
    /\ \A k \in KeysOf(apiKeys, u, "openai") :
          apiKeys[k].IsActive /\ decryptAPIKey(apiKeys[k].EncryptedKey).err

\* C25: when the owner calls Generate without an explicit key and the stored
\* key fails to decrypt, the call is answered with an error and no request
\* is sent to the LLM with another key.
C25_ResolutionErrorSurfaces ==
    \A u \in Users, req \in GenerationRequests, llm \in LLMOutcomes :
        (Owns(u, req.MindMapID) /\ req.APIKey = "" /\ StoredKeyCorrupt(u)) =>
            LET r == GenerateIdeasR(u, req, llm)
            IN r.requests = 0 /\ r.status # "OK"

\* The items of the call that are in the store.
StoredItems(call) ==
    Cardinality({k \in 1..Len(call.nodes) : call.nodes[k].ID \in DOMAIN nodes})
    + Cardinality({k \in 1..Len(call.edges) : call.edges[k].ID \in DOMAIN edges})

\* C26: the error a Materialize call returns when a creation fails carries
\* the number of nodes and edges the call created before the failure, and
\* when the call returns that number is the number of its items in the store.
C26_FailureCarriesCount ==
    HasFailed =>
        /\ "Count" \in DOMAIN Response(mat)
        /\ Response(mat).Count = Len(mat.nodes) + Len(mat.edges)
        /\ Response(mat).Count = StoredItems(mat)

\* C27: the source node and the target node of every edge belong to the mind
\* map that owns the edge.
C27_EdgeWithinMindMap ==
    \A e \in DOMAIN edges :
        /\ MapOfNode(edges[e].SourceID) = edges[e].MindMapID
        /\ MapOfNode(edges[e].TargetID) = edges[e].MindMapID

\* Following parent links from n ends, within k links, at a node that has
\* no parent.
RECURSIVE Rooted(_, _)
Rooted(n, k) ==
    \/ nodes[n].ParentID = NoID
    \/ /\ k > 0
       /\ nodes[n].ParentID \in DOMAIN nodes
       /\ Rooted(nodes[n].ParentID, k - 1)

ParentsForest == \A n \in DOMAIN nodes : Rooted(n, Cardinality(DOMAIN nodes))

\* A node that stays keeps its parent; a new node's parent is a node that
\* was there before it, or none.
ParentsSetOnce ==
    \A n \in DOMAIN nodes' :
        IF n \in DOMAIN nodes THEN nodes'[n].ParentID = nodes[n].ParentID
        ELSE nodes'[n].ParentID = NoID \/ nodes'[n].ParentID \in DOMAIN nodes

\* C28: parent links always form a forest: following parent links from any
\* node ends at a node without a parent; a parent link is set only when the
\* node is created, names a node that already exists, and never changes.
C28_ParentForest == [][ParentsForest /\ ParentsForest' /\ ParentsSetOnce]_vars

\* A node has a child and a grandchild; the child's content has been
\* updated and the node's position set by a batch.
C28_Witness ==
    \E a \in DOMAIN nodes, b \in DOMAIN nodes, c \in DOMAIN nodes :
        /\ nodes[a].ParentID = NoID /\ nodes[b].ParentID = a /\ nodes[c].ParentID = b
        /\ nodes[b].Content = "c2"
        /\ nodes[a].PositionX = 2 /\ nodes[a].PositionY = 3

\* C29: the status of every mind map is active or deleted.
C29_StatusActiveOrDeleted ==
    \A m \in DOMAIN mindMaps : mindMaps[m].Status \in {"active", "deleted"}

\* C30: a node or edge is inserted only while its mind map is not deleted:
\* no step adds a node or an edge to a mind map whose status is deleted when
\* the step is taken.
C30_NoInsertIntoDeleted ==
    [][/\ \A n \in DOMAIN nodes' \ DOMAIN nodes : ~Deleted(nodes'[n].MindMapID)
       /\ \A e \in DOMAIN edges' \ DOMAIN edges : ~Deleted(edges'[e].MindMapID)]_vars
====
